---- MODULE Spec2Model ----
(***************************************************************************)
(* Model of codeowners-rs: the pattern-set builder (builder.rs), the NFA   *)
(* and its per-segment transition conditions (nfa.rs), the caching matcher *)
(* (matcher.rs) and the RuleSet layer (ruleset.rs).                        *)
(*                                                                         *)
(* Strings are sequences of one-character strings, so that stripping,      *)
(* splitting, trimming and regex translation are computed as the code      *)
(* computes them.  State ids are 0-based as in the code; state k of the    *)
(* automaton is element k+1 of the sequence of states.                     *)
(***************************************************************************)
EXTENDS Integers, Sequences, FiniteSets, TLC

VARIABLES
    phase,            \* position of the driver of the current specification
    rules,            \* RuleSet.rules: sequence of [pattern, owners]
    patterns,         \* the patterns handed to matcher_for_patterns, in order
    nfa,              \* Builder.nfa / Matcher.nfa: sequence of State records
    next_pattern_id,  \* Builder.next_pattern_id
    cache,            \* Matcher.transition_cache: prefix string -> state list
    q_path,           \* path of the last query
    q_matches,        \* Vec returned by the last matching_patterns call
    q_rule,           \* index returned by the last matching_rule call, or None
    q_owners,         \* owners returned by the last owners call, or None
    transition,       \* the Transition under test (segment level)
    candidate,        \* the candidate path segment of the last is_match call
    matched,          \* the value returned by the last is_match call
    source,           \* Parser.source: the CODEOWNERS text handed to parse
    parsed,           \* the ParseResult returned by parse: [rules, errors]
    owner_value,      \* the String handed to Owner::try_from
    owner_result,     \* the Result returned by Owner::try_from
    tree_paths,       \* the paths handed to TreeMatcher::matches_for_paths
    tree_matches,     \* the HashMap it returned: path -> Vec of pattern ids
    pnfa,             \* a PatternNFA: its states, edges, cache and next_pattern_id
    p_matches,        \* the HashSet returned by the last PatternNFA::matching_patterns
    matchers,         \* the Matcher values alive: sequence of [nfa, cache], cache an Arc
    heap,             \* the Arc<RwLock<HashMap>> allocations: [map, readers, writer]
    threads,          \* per thread: its position in matching_patterns / next_states,
                      \* with hit recording that the query found a cached prefix,
    printed,          \* what the last print_parse_error call computed, or that it panicked
    wild              \* the last wildcard::matches call: its arguments, result and loop count

vars == <<phase, rules, patterns, nfa, next_pattern_id, cache, q_path, q_matches,
          q_rule, q_owners, transition, candidate, matched, source, parsed,
          owner_value, owner_result, tree_paths, tree_matches, pnfa, p_matches,
          matchers, heap, threads, printed, wild>>

ruleVars == <<rules, patterns, nfa, next_pattern_id, cache, q_path, q_matches, q_rule, q_owners>>
globVars == <<transition, candidate, matched>>
parseVars == <<source, parsed, owner_value, owner_result>>
sharedVars == <<matchers, heap, threads>>
treeVars == <<tree_paths, tree_matches>>
pnfaVars == <<pnfa, p_matches>>
cliVars == <<printed>>
wildVars == <<wild>>

\* the threads of the model
Threads == {1, 2}

\* a thread that is not inside matching_patterns
IdleThread == [pc |-> "idle", m |-> 0, comps |-> <<>>, level |-> 0, states |-> <<>>,
               hit |-> FALSE, result |-> <<>>]

\* no Matcher has been shared between threads
NotShared == matchers = <<>> /\ heap = <<>> /\ threads = [t \in Threads |-> IdleThread]

\* neither print_parse_error nor wildcard::matches has been called
NotCalled == printed = <<>> /\ wild = <<>>

\* matches_for_paths has not been called
NotTree == tree_paths = <<>> /\ tree_matches = <<>>

\* no PatternNFA exists
NotPnfa == pnfa = <<>> /\ p_matches = {}

\* no text has been parsed
NotParsed ==
    /\ source = <<>> /\ parsed = [rules |-> <<>>, errors |-> <<>>]
    /\ owner_value = <<>> /\ owner_result = [ok |-> FALSE, err |-> <<>>]

(***************************************************************************)
(* Bounds of the model.                                                    *)
(***************************************************************************)
MaxGlobLen == 4
MaxCandLen == 3
MaxPatSegs == 3
MaxPathLen == 4
MaxRules == 2

\* Option<StateId> and Option<usize>: None
None == -1
\* Option of a list: None is the empty sequence, Some(v) the one-element <<v>>
NoList == <<>>
Some(v) == <<v>>

(***************************************************************************)
(* String helpers (Rust str methods used by the code).                     *)
(***************************************************************************)
Last(s) == s[Len(s)]
Front(s) == SubSeq(s, 1, Len(s) - 1)

SeqsUpTo(S, n) == UNION {[1..k -> S] : k \in 0..n}

SetMin(S) == CHOOSE x \in S : \A y \in S : x <= y
SetMax(S) == CHOOSE x \in S : \A y \in S : x >= y

\* str::strip_prefix(c): the rest and whether the prefix was present
StripPrefix(s, c) ==
    IF Len(s) > 0 /\ s[1] = c THEN [rest |-> Tail(s), found |-> TRUE]
                              ELSE [rest |-> s, found |-> FALSE]

\* str::strip_suffix(c)
StripSuffix(s, c) ==
    IF Len(s) > 0 /\ s[Len(s)] = c THEN [rest |-> Front(s), found |-> TRUE]
                                   ELSE [rest |-> s, found |-> FALSE]

\* str::split(c): always at least one piece, empty pieces kept
RECURSIVE SplitFrom(_, _, _)
SplitFrom(s, c, cur) ==
    IF s = <<>> THEN <<cur>>
    ELSE IF Head(s) = c THEN <<cur>> \o SplitFrom(Tail(s), c, <<>>)
    ELSE SplitFrom(Tail(s), c, Append(cur, Head(s)))

Split(s, c) == SplitFrom(s, c, <<>>)

\* [T]::join(sep) on a slice of strings
RECURSIVE Join(_, _)
Join(parts, sep) ==
    IF parts = <<>> THEN <<>>
    ELSE IF Len(parts) = 1 THEN parts[1]
    ELSE parts[1] \o <<sep>> \o Join(Tail(parts), sep)

\* str::trim_end_matches(c), trim_start_matches(c), trim_matches(c)
RECURSIVE TrimEnd(_, _)
TrimEnd(s, c) == IF Len(s) > 0 /\ s[Len(s)] = c THEN TrimEnd(Front(s), c) ELSE s

RECURSIVE TrimStart(_, _)
TrimStart(s, c) == IF Len(s) > 0 /\ s[1] = c THEN TrimStart(Tail(s), c) ELSE s

TrimBoth(s, c) == TrimEnd(TrimStart(s, c), c)

StartsWith(s, p) == Len(p) <= Len(s) /\ SubSeq(s, 1, Len(p)) = p
EndsWith(s, p) == Len(p) <= Len(s) /\ SubSeq(s, Len(s) - Len(p) + 1, Len(s)) = p
\* memchr::memmem::find(haystack, needle).is_some()
Contains(s, p) == \E i \in 0..(Len(s) - Len(p)) : SubSeq(s, i + 1, i + Len(p)) = p

(***************************************************************************)
(* nfa.rs: segment conditions.                                             *)
(***************************************************************************)
\* regex_syntax::is_meta_character
MetaChars == {"\\", ".", "+", "*", "?", "(", ")", "|", "[", "]", "{", "}",
              "^", "$", "#", "&", "-", "~"}

is_meta_character(c) == c \in MetaChars

\* has_wildcard over a char iterator
has_wildcard(chars) == \E i \in 1..Len(chars) : chars[i] = "*" \/ chars[i] = "?"

\* pattern_to_regex: the source text of the regex built for a segment
RECURSIVE RegexBody(_)
RegexBody(pattern) ==
    IF pattern = <<>> THEN <<>>
    ELSE LET c == Head(pattern) IN
         (CASE c = "*" -> <<"[", "^", "/", "]", "*">>
            [] c = "?" -> <<"[", "^", "/", "]">>
            [] OTHER -> IF is_meta_character(c) THEN <<"\\", c>> ELSE <<c>>)
         \o RegexBody(Tail(pattern))

pattern_to_regex(pattern) == <<"\\", "A">> \o RegexBody(pattern) \o <<"\\", "z">>

\* regex::Regex::new on the texts pattern_to_regex produces: \A, \z, the class
\* [^/] with an optional star, an escaped character, a plain character
RECURSIVE RegexParse(_)
RegexParse(re) ==
    IF re = <<>> THEN <<>>
    ELSE IF Len(re) >= 2 /\ re[1] = "\\" /\ re[2] = "A"
        THEN <<[t |-> "start"]>> \o RegexParse(SubSeq(re, 3, Len(re)))
    ELSE IF Len(re) >= 2 /\ re[1] = "\\" /\ re[2] = "z"
        THEN <<[t |-> "end"]>> \o RegexParse(SubSeq(re, 3, Len(re)))
    ELSE IF Len(re) >= 2 /\ re[1] = "\\"
        THEN <<[t |-> "lit", c |-> re[2]]>> \o RegexParse(SubSeq(re, 3, Len(re)))
    ELSE IF Len(re) >= 5 /\ SubSeq(re, 1, 5) = <<"[", "^", "/", "]", "*">>
        THEN <<[t |-> "star"]>> \o RegexParse(SubSeq(re, 6, Len(re)))
    ELSE IF Len(re) >= 4 /\ SubSeq(re, 1, 4) = <<"[", "^", "/", "]">>
        THEN <<[t |-> "one"]>> \o RegexParse(SubSeq(re, 5, Len(re)))
    ELSE <<[t |-> "lit", c |-> re[1]]>> \o RegexParse(Tail(re))

\* does the token list match exactly the text s from position 1 (start) on
RECURSIVE TokensMatch(_, _, _)
TokensMatch(toks, s, atStart) ==
    IF toks = <<>> THEN TRUE
    ELSE LET tk == Head(toks) IN
         CASE tk.t = "start" -> atStart /\ TokensMatch(Tail(toks), s, atStart)
           [] tk.t = "end" -> s = <<>> /\ TokensMatch(Tail(toks), s, atStart)
           [] tk.t = "lit" -> /\ s # <<>>
                              /\ Head(s) = tk.c
                              /\ TokensMatch(Tail(toks), Tail(s), FALSE)
           [] tk.t = "one" -> /\ s # <<>>
                              /\ Head(s) # "/"
                              /\ TokensMatch(Tail(toks), Tail(s), FALSE)
           [] tk.t = "star" -> \/ TokensMatch(Tail(toks), s, atStart)
                               \/ /\ s # <<>>
                                  /\ Head(s) # "/"
                                  /\ TokensMatch(toks, Tail(s), FALSE)

\* regex::Regex::is_match: a search, which the \A of the text pins to offset 0
RegexIsMatch(re, s) == TokensMatch(RegexParse(re), s, TRUE)

\* TransitionCondition::new
TransitionConditionNew(glob) ==
    IF glob = <<"*">> THEN [kind |-> "Unconditional"]
    ELSE LET n == Len(glob)
             leading_star == n >= 1 /\ glob[1] = "*"
             trailing_star == n >= 2 /\ glob[n] = "*"
             internal_wildcards == n >= 3 /\ has_wildcard(SubSeq(glob, 2, n - 1))
         IN  CASE ~leading_star /\ ~trailing_star /\ ~internal_wildcards -> [kind |-> "Literal"]
               [] ~leading_star /\ trailing_star /\ ~internal_wildcards -> [kind |-> "Prefix"]
               [] leading_star /\ ~trailing_star /\ ~internal_wildcards -> [kind |-> "Suffix"]
               [] leading_star /\ trailing_star /\ ~internal_wildcards -> [kind |-> "Contains"]
               [] OTHER -> [kind |-> "Regex", re |-> pattern_to_regex(glob)]

\* TransitionCondition::is_match
ConditionIsMatch(c, pattern, cand) ==
    CASE c.kind = "Unconditional" -> TRUE
      [] c.kind = "Literal" -> pattern = cand
      [] c.kind = "Prefix" -> StartsWith(cand, TrimEnd(pattern, "*"))
      [] c.kind = "Suffix" -> EndsWith(cand, TrimStart(pattern, "*"))
      [] c.kind = "Contains" -> Contains(cand, TrimBoth(pattern, "*"))
      [] c.kind = "Regex" -> RegexIsMatch(c.re, cand)

\* Transition::new
TransitionNew(path_segment, target) ==
    [path_segment |-> path_segment,
     matcher |-> TransitionConditionNew(path_segment),
     target |-> target]

\* Transition::is_match
TransitionIsMatch(t, cand) == ConditionIsMatch(t.matcher, t.path_segment, cand)

(***************************************************************************)
(* nfa.rs: states and the automaton.                                       *)
(***************************************************************************)
START_STATE == 0

\* State::new
StateNew == [terminal_for_patterns |-> <<>>, transitions |-> <<>>, epsilon_transition |-> None]

\* Nfa::new: the start state alone
NfaNew == <<StateNew>>

\* Nfa::state
StateOf(n, id) == n[id + 1]

\* Nfa::add_state: the automaton with one more state, whose id is returned
AddState(n) == [nfa |-> Append(n, StateNew), id |-> Len(n)]

\* State::is_terminal
IsTerminal(st) == st.terminal_for_patterns # <<>>

\* State::set_terminal_for_pattern (mark_as_terminal in the builder)
MarkAsTerminal(n, id, pattern_id) ==
    [n EXCEPT ![id + 1].terminal_for_patterns = Append(@, pattern_id)]

\* Nfa::initial_states
InitialStates(n) ==
    IF StateOf(n, START_STATE).epsilon_transition # None
    THEN <<START_STATE, StateOf(n, START_STATE).epsilon_transition>>
    ELSE <<START_STATE>>

(***************************************************************************)
(* builder.rs                                                              *)
(***************************************************************************)
\* an add_transition that shares the target of any transition out of the
\* state, whatever its segment
AddTransitionAnySegment(n, from_id, segment) ==
    LET ts == StateOf(n, from_id).transitions
        hits == {k \in 1..Len(ts) : ts[k].target # from_id}
    IN  IF hits # {}
        THEN [nfa |-> n, id |-> ts[SetMin(hits)].target]
        ELSE LET a == AddState(n)
             IN  [nfa |-> [a.nfa EXCEPT ![from_id + 1].transitions =
                                            Append(@, TransitionNew(segment, a.id))],
                  id |-> a.id]

\* an add_transition that never reuses an existing transition
AddTransitionAlwaysNew(n, from_id, segment) ==
    LET a == AddState(n)
    IN  [nfa |-> [a.nfa EXCEPT ![from_id + 1].transitions =
                                   Append(@, TransitionNew(segment, a.id))],
         id |-> a.id]

\* Builder::add_transition
AddTransition(n, from_id, segment) ==
    LET ts == StateOf(n, from_id).transitions
        hits == {k \in 1..Len(ts) : ts[k].path_segment = segment /\ ts[k].target # from_id}
    IN  IF hits # {}
        THEN [nfa |-> n, id |-> ts[SetMin(hits)].target]
        ELSE LET a == AddState(n)
             IN  [nfa |-> [a.nfa EXCEPT ![from_id + 1].transitions =
                                            Append(@, TransitionNew(segment, a.id))],
                  id |-> a.id]

\* an add_epsilon_transition without the self-loop test: an epsilon target
\* gets an epsilon target of its own
AddEpsilonTransitionChained(n, from_id) ==
    IF StateOf(n, from_id).epsilon_transition # None
    THEN [nfa |-> n, id |-> StateOf(n, from_id).epsilon_transition]
    ELSE LET a == AddState(n)
             withLoop == [a.nfa EXCEPT ![a.id + 1].transitions =
                                           Append(@, TransitionNew(<<"*">>, a.id))]
         IN  [nfa |-> [withLoop EXCEPT ![from_id + 1].epsilon_transition = a.id],
              id |-> a.id]

\* Builder::add_epsilon_transition
AddEpsilonTransition(n, from_id) ==
    LET ts == StateOf(n, from_id).transitions
        has_existing_transition ==
            \E k \in 1..Len(ts) : ts[k].path_segment = <<"*">> /\ ts[k].target = from_id
    IN  IF has_existing_transition THEN [nfa |-> n, id |-> from_id]
        ELSE IF StateOf(n, from_id).epsilon_transition # None
        THEN [nfa |-> n, id |-> StateOf(n, from_id).epsilon_transition]
        ELSE LET a == AddState(n)
                 withLoop == [a.nfa EXCEPT ![a.id + 1].transitions =
                                               Append(@, TransitionNew(<<"*">>, a.id))]
             IN  [nfa |-> [withLoop EXCEPT ![from_id + 1].epsilon_transition = a.id],
                  id |-> a.id]

\* the leading-slash strip, trailing-slash strip and split of Builder::add
PatternParts(pattern) ==
    LET lead == StripPrefix(pattern, "/")
        trail == StripSuffix(lead.rest, "/")
    IN  [leading_slash |-> lead.found,
         trailing_slash |-> trail.found,
         segments |-> Split(trail.rest, "/")]

\* a start that lets every pattern without a leading slash float
StartStateAllFloat(n, parts) ==
    IF ~parts.leading_slash
    THEN AddEpsilonTransition(n, START_STATE)
    ELSE [nfa |-> n, id |-> START_STATE]

\* a start that anchors every pattern
StartStateAllAnchored(n, parts) == [nfa |-> n, id |-> START_STATE]

\* Builder::add: the state the pattern's segments start from; only a single
\* segment without a leading slash floats
StartState(n, parts) ==
    IF ~parts.leading_slash /\ Len(parts.segments) = 1
    THEN AddEpsilonTransition(n, START_STATE)
    ELSE [nfa |-> n, id |-> START_STATE]

\* a fold that treats `**` as an ordinary segment
RECURSIVE FoldPlain(_, _)
FoldPlain(cur, segments) ==
    IF segments = <<>> THEN cur
    ELSE FoldPlain(AddTransition(cur.nfa, cur.id, Head(segments)), Tail(segments))

\* the fold of Builder::add over the pattern's segments
RECURSIVE FoldSegments(_, _)
FoldSegments(cur, segments) ==
    IF segments = <<>> THEN cur
    ELSE FoldSegments(
            IF Head(segments) = <<"*", "*">>
            THEN AddEpsilonTransition(cur.nfa, cur.id)
            ELSE AddTransition(cur.nfa, cur.id, Head(segments)),
            Tail(segments))

\* an add without the extra `*` segment after a trailing slash or a final `**`
WithChildNever(cur, parts) == cur

\* Builder::add: one more `*` segment after a trailing slash or a final `**`
WithChild(cur, parts) ==
    IF parts.trailing_slash \/ Last(parts.segments) = <<"*", "*">>
    THEN AddTransition(cur.nfa, cur.id, <<"*">>)
    ELSE cur

\* an end that never matches beneath the pattern
WithRecursionNever(cur, parts) == cur

\* an end that matches beneath every pattern, the bare `*` included
WithRecursionAlways(cur, parts) == AddEpsilonTransition(cur.nfa, cur.id)

\* Builder::add: the closing epsilon edge of every pattern whose last segment
\* is not the bare `*`
WithRecursion(cur, parts) ==
    IF Last(parts.segments) # <<"*">>
    THEN AddEpsilonTransition(cur.nfa, cur.id)
    ELSE cur

\* a Builder::add that never advances next_pattern_id: every pattern gets id 0
BuilderAddSameId(b, pattern) ==
    LET pattern_id == b.next_pattern_id
        parts == PatternParts(pattern)
        start == StartState(b.nfa, parts)
        folded == FoldSegments(start, parts.segments)
        end == WithRecursion(WithChild(folded, parts), parts)
    IN  [nfa |-> MarkAsTerminal(end.nfa, end.id, pattern_id),
         next_pattern_id |-> pattern_id]

\* Builder::add, on a builder b = [nfa, next_pattern_id]
BuilderAdd(b, pattern) ==
    LET pattern_id == b.next_pattern_id
        parts == PatternParts(pattern)
        start == StartState(b.nfa, parts)
        folded == FoldSegments(start, parts.segments)
        end == WithRecursion(WithChild(folded, parts), parts)
    IN  [nfa |-> MarkAsTerminal(end.nfa, end.id, pattern_id),
         next_pattern_id |-> pattern_id + 1]

\* Builder::new
BuilderNew == [nfa |-> NfaNew, next_pattern_id |-> 0]

\* the loop of RuleSet::new and of matcher_for_patterns: add every pattern in order
RECURSIVE AddAll(_, _)
AddAll(b, pats) ==
    IF pats = <<>> THEN b
    ELSE AddAll(BuilderAdd(b, Head(pats)), Tail(pats))

(***************************************************************************)
(* matcher.rs                                                              *)
(***************************************************************************)
\* Path::iter with to_string_lossy: the components of a path.  A leading
\* separator yields the root component "/", empty components and "."
\* components are skipped, except a "." that starts a relative path.
PathComponents(path) ==
    LET rooted == Len(path) > 0 /\ path[1] = "/"
        pieces == Split(path, "/")
        keep(i) == /\ pieces[i] # <<>>
                   /\ (pieces[i] = <<".">> => (i = 1 /\ ~rooted))
        kept == {i \in 1..Len(pieces) : keep(i)}
        RECURSIVE Collect(_)
        Collect(i) == IF i > Len(pieces) THEN <<>>
                      ELSE (IF i \in kept THEN <<pieces[i]>> ELSE <<>>) \o Collect(i + 1)
    IN  (IF rooted THEN <<(<<"/">>)>> ELSE <<>>) \o Collect(1)

\* the targets of the transitions of one state that match the segment, in order
RECURSIVE MatchingTargets(_, _)
MatchingTargets(ts, segment) ==
    IF ts = <<>> THEN <<>>
    ELSE (IF TransitionIsMatch(Head(ts), segment) THEN <<Head(ts).target>> ELSE <<>>)
         \o MatchingTargets(Tail(ts), segment)

\* the loop over the current states pushing matching targets
RECURSIVE StepStates(_, _, _)
StepStates(n, states, segment) ==
    IF states = <<>> THEN <<>>
    ELSE MatchingTargets(StateOf(n, Head(states)).transitions, segment)
         \o StepStates(n, Tail(states), segment)

\* a traversal that follows no epsilon edge
EpsilonNodesNone(n, states) == <<>>

\* the epsilon targets of a state list, in order
RECURSIVE EpsilonNodes(_, _)
EpsilonNodes(n, states) ==
    IF states = <<>> THEN <<>>
    ELSE (IF StateOf(n, Head(states)).epsilon_transition # None
          THEN <<StateOf(n, Head(states)).epsilon_transition>> ELSE <<>>)
         \o EpsilonNodes(n, Tail(states))

\* Matcher::get_cached_states_for
GetCachedStatesFor(c, key) == IF key \in DOMAIN c THEN Some(c[key]) ELSE NoList

\* a set_cached_states_for that replaces the map by the one entry
SetCachedStatesForAlone(c, key, states) == [k \in {key} |-> states]

\* Matcher::set_cached_states_for
SetCachedStatesFor(c, key, states) ==
    [k \in DOMAIN c \cup {key} |-> IF k = key THEN states ELSE c[k]]

\* Matcher::next_states: the states reached and the cache left behind
RECURSIVE NextStates(_, _, _, _)
NextStates(n, c, path_segments, start_states) ==
    IF path_segments = <<>> THEN [states |-> start_states, cache |-> c]
    ELSE LET subpath_segments == Front(path_segments)
             subpath == Join(subpath_segments, "/")
             cached_states == GetCachedStatesFor(c, subpath)
             pre == IF cached_states # NoList
                    THEN [states |-> cached_states[1], cache |-> c]
                    ELSE LET r == NextStates(n, c, subpath_segments, start_states)
                         IN  [states |-> r.states,
                              cache |-> SetCachedStatesFor(r.cache, subpath, r.states)]
             segment == Last(path_segments)
             next_states == StepStates(n, pre.states, segment)
         IN  [states |-> next_states \o EpsilonNodes(n, next_states), cache |-> pre.cache]

\* the pattern ids of the terminal states of a state list, in order
RECURSIVE TerminalPatterns(_, _)
TerminalPatterns(n, states) ==
    IF states = <<>> THEN <<>>
    ELSE (IF IsTerminal(StateOf(n, Head(states)))
          THEN StateOf(n, Head(states)).terminal_for_patterns ELSE <<>>)
         \o TerminalPatterns(n, Tail(states))

\* Matcher::matching_patterns: the Vec of ids and the cache left behind
MatchingPatterns(n, c, path) ==
    LET components == PathComponents(path)
        final == NextStates(n, c, components, InitialStates(n))
    IN  [matches |-> TerminalPatterns(n, final.states), cache |-> final.cache]

\* Matcher::new: an empty cache
EmptyCache == [k \in {} |-> <<>>]

(***************************************************************************)
(* ruleset.rs                                                              *)
(***************************************************************************)
Range(s) == {s[i] : i \in 1..Len(s)}

\* Iterator::max over the Vec of ids
IterMax(ids) == IF ids = <<>> THEN None ELSE SetMax(Range(ids))

\* a matching_rule that keeps the first match instead of the last
MatchingRuleFirst(ids) == IF ids = <<>> THEN None ELSE SetMin(Range(ids))

\* RuleSet::matching_rule: the index of the rule returned, or None
MatchingRule(ids) == IterMax(ids)

\* an owners that falls back to an earlier rule when the winner has no owners
OwnersPromoting(rs, idx) ==
    IF idx = None THEN NoList
    ELSE LET owned == {j \in 0..idx : rs[j + 1].owners # <<>>}
         IN  IF owned = {} THEN NoList ELSE Some(rs[SetMax(owned) + 1].owners)

\* RuleSet::owners, given the rules and the index found by matching_rule
Owners(rs, idx) ==
    IF idx = None THEN NoList
    ELSE IF rs[idx + 1].owners = <<>> THEN NoList
    ELSE Some(rs[idx + 1].owners)

(***************************************************************************)
(* ruleset.rs: Owner::try_from and its three regular expressions.          *)
(***************************************************************************)
UpperChars == {"A", "B", "C", "D", "E", "F", "G", "H", "I", "J", "K", "L", "M",
               "N", "O", "P", "Q", "R", "S", "T", "U", "V", "W", "X", "Y", "Z"}
LowerChars == {"a", "b", "c", "d", "e", "f", "g", "h", "i", "j", "k", "l", "m",
               "n", "o", "p", "q", "r", "s", "t", "u", "v", "w", "x", "y", "z"}
DigitChars == {"0", "1", "2", "3", "4", "5", "6", "7", "8", "9"}
AlnumChars == UpperChars \cup LowerChars \cup DigitChars

\* every character of s lies in the class, and there is at least one
NonEmptyOver(s, class) == Len(s) >= 1 /\ \A i \in 1..Len(s) : s[i] \in class

\* EMAIL_REGEX: \A[A-Z0-9a-z\._'%\+\-]+@[A-Za-z0-9\.\-]+\.[A-Za-z]{2,6}\z
EmailRegexIsMatch(s) ==
    \E at \in 1..Len(s) : \E dot \in 1..Len(s) :
        /\ at < dot
        /\ s[at] = "@"
        /\ s[dot] = "."
        /\ NonEmptyOver(SubSeq(s, 1, at - 1), AlnumChars \cup {".", "_", "'", "%", "+", "-"})
        /\ NonEmptyOver(SubSeq(s, at + 1, dot - 1), AlnumChars \cup {".", "-"})
        /\ NonEmptyOver(SubSeq(s, dot + 1, Len(s)), UpperChars \cup LowerChars)
        /\ Len(s) - dot \in 2..6

\* a USERNAME_REGEX whose class also admits the slash, so that it overlaps
\* TEAM_REGEX
UsernameRegexWithSlash(s) ==
    /\ Len(s) >= 1
    /\ s[1] = "@"
    /\ NonEmptyOver(Tail(s), AlnumChars \cup {"-", "_", "/"})

\* USERNAME_REGEX: \A@[a-zA-Z0-9\-_]+\z
UsernameRegexIsMatch(s) ==
    /\ Len(s) >= 1
    /\ s[1] = "@"
    /\ NonEmptyOver(Tail(s), AlnumChars \cup {"-", "_"})

\* TEAM_REGEX: \A@[a-zA-Z0-9\-]+/[a-zA-Z0-9\-_]+\z
TeamRegexIsMatch(s) ==
    /\ Len(s) >= 1
    /\ s[1] = "@"
    /\ \E slash \in 2..Len(s) :
        /\ s[slash] = "/"
        /\ NonEmptyOver(SubSeq(s, 2, slash - 1), AlnumChars \cup {"-"})
        /\ NonEmptyOver(SubSeq(s, slash + 1, Len(s)), AlnumChars \cup {"-", "_"})

\* Owner::new
OwnerNew(value, kind) == [value |-> value, kind |-> kind]

\* InvalidOwnerError's Display: the fixed text followed by the value
InvalidOwnerMessage(value) == <<"invalid owner: ">> \o value

\* Owner::try_from: Ok(owner) or Err(InvalidOwnerError)
OwnerTryFrom(value) ==
    IF EmailRegexIsMatch(value) THEN [ok |-> TRUE, owner |-> OwnerNew(value, "Email")]
    ELSE IF UsernameRegexIsMatch(value) THEN [ok |-> TRUE, owner |-> OwnerNew(value, "User")]
    ELSE IF TeamRegexIsMatch(value) THEN [ok |-> TRUE, owner |-> OwnerNew(value, "Team")]
    ELSE [ok |-> FALSE, err |-> InvalidOwnerMessage(value)]

(***************************************************************************)
(* parser.rs.  The source is a sequence of characters, positions are byte  *)
(* offsets from 0, and every character of the model's alphabet is one byte *)
(* long.  NUL stands for the character U+0000.                             *)
(***************************************************************************)
NUL == "NUL"
NoChar == ""
TAB == "\t"
CR == "\r"
LF == "\n"

\* char::len_utf8 on the model's alphabet
LenUtf8(c) == 1

\* Span and Spanned
SpanOf(start, end) == <<start, end>>
Spanned(val, span) == [val |-> val, span |-> span]

\* ParseError::new
ParseErrorNew(message, span) == [message |-> message, span |-> span]

\* Parser::peek
Peek(src, pos) == IF pos < Len(src) THEN src[pos + 1] ELSE NoChar

\* Parser::next: the position after the character under the cursor
NextPos(src, pos) == IF Peek(src, pos) = NoChar THEN pos ELSE pos + LenUtf8(Peek(src, pos))

\* Parser::skip_whitespace
RECURSIVE SkipWhitespace(_, _)
SkipWhitespace(src, pos) ==
    IF Peek(src, pos) \in {" ", TAB} THEN SkipWhitespace(src, NextPos(src, pos)) ELSE pos

\* the loop of Parser::parse_comment
RECURSIVE CommentLoop(_, _, _)
CommentLoop(src, pos, comment) ==
    IF Peek(src, pos) \in {CR, LF, NoChar} THEN [comment |-> comment, pos |-> pos]
    ELSE CommentLoop(src, NextPos(src, pos), Append(comment, Peek(src, pos)))

\* Parser::parse_comment
ParseComment(src, pos) ==
    LET r == CommentLoop(src, pos, <<>>)
    IN  [comment |-> Spanned(r.comment, SpanOf(pos, r.pos)), pos |-> r.pos]

\* the loop of an escape-blind parse_pattern: a backslash is an ordinary character
RECURSIVE PatternLoopNoEscape(_, _, _, _, _)
PatternLoopNoEscape(src, pos, pattern, escaped, errors) ==
    LET c == Peek(src, pos)
    IN  IF c \in {" ", TAB, "#", CR, LF, NoChar}
        THEN [pattern |-> pattern, pos |-> pos, errors |-> errors]
        ELSE PatternLoopNoEscape(src, NextPos(src, pos), Append(pattern, c), FALSE,
                 IF c = NUL
                 THEN Append(errors, ParseErrorNew(<<"patterns cannot contain null bytes">>,
                                                   SpanOf(pos, pos + 1)))
                 ELSE errors)

\* the loop of a parse_pattern that reports a NUL and leaves it out of the pattern
RECURSIVE PatternLoopDropNul(_, _, _, _, _)
PatternLoopDropNul(src, pos, pattern, escaped, errors) ==
    LET c == Peek(src, pos)
    IN  IF c = "\\" /\ ~escaped
        THEN PatternLoopDropNul(src, NextPos(src, pos), pattern, TRUE, errors)
        ELSE IF c \in {" ", TAB, "#", CR, LF} /\ ~escaped
        THEN [pattern |-> pattern, pos |-> pos, errors |-> errors]
        ELSE IF c # NoChar
        THEN PatternLoopDropNul(src, NextPos(src, pos),
                 IF c = NUL THEN pattern ELSE Append(pattern, c), FALSE,
                 IF c = NUL
                 THEN Append(errors, ParseErrorNew(<<"patterns cannot contain null bytes">>,
                                                   SpanOf(pos, pos + 1)))
                 ELSE errors)
        ELSE [pattern |-> pattern, pos |-> pos, errors |-> errors]

\* the loop of Parser::parse_pattern
RECURSIVE PatternLoop(_, _, _, _, _)
PatternLoop(src, pos, pattern, escaped, errors) ==
    LET c == Peek(src, pos)
    IN  IF c = "\\" /\ ~escaped
        THEN PatternLoop(src, NextPos(src, pos), pattern, TRUE, errors)
        ELSE IF c \in {" ", TAB, "#", CR, LF} /\ ~escaped
        THEN [pattern |-> pattern, pos |-> pos, errors |-> errors]
        ELSE IF c # NoChar
        THEN PatternLoop(src, NextPos(src, pos), Append(pattern, c), FALSE,
                 IF c = NUL
                 THEN Append(errors, ParseErrorNew(<<"patterns cannot contain null bytes">>,
                                                   SpanOf(pos, pos + 1)))
                 ELSE errors)
        ELSE [pattern |-> pattern, pos |-> pos, errors |-> errors]

\* Parser::parse_pattern
ParsePattern(src, pos, errors) ==
    LET r == PatternLoop(src, pos, <<>>, FALSE, errors)
    IN  [pattern |-> Spanned(r.pattern, SpanOf(pos, r.pos)), pos |-> r.pos, errors |-> r.errors]

\* the loop of Parser::parse_owner
RECURSIVE OwnerLoop(_, _, _)
OwnerLoop(src, pos, owner_str) ==
    IF Peek(src, pos) \in {" ", TAB, "#", CR, LF, NoChar}
    THEN [owner_str |-> owner_str, pos |-> pos]
    ELSE OwnerLoop(src, NextPos(src, pos), Append(owner_str, Peek(src, pos)))

\* Parser::parse_owner, once the token is classified
ClassifiedOwner(t, start, end, errors) ==
    IF t.ok
    THEN [owner |-> Some(Spanned(t.owner, SpanOf(start, end))), pos |-> end, errors |-> errors]
    ELSE [owner |-> NoList, pos |-> end,
          errors |-> Append(errors, ParseErrorNew(t.err, SpanOf(start, end)))]

\* Parser::parse_owner, once the token is read
OwnerFromToken(r, start, errors) ==
    IF r.owner_str = <<>> THEN [owner |-> NoList, pos |-> r.pos, errors |-> errors]
    ELSE ClassifiedOwner(OwnerTryFrom(r.owner_str), start, r.pos, errors)

\* Parser::parse_owner: Some(owner) as <<owner>>, None as <<>>
ParseOwner(src, pos, errors) == OwnerFromToken(OwnerLoop(src, pos, <<>>), pos, errors)

\* the owner loop of Parser::parse_rule: it ends at the first None
RECURSIVE OwnersLoop(_, _, _, _)
RECURSIVE OwnersLoopStep(_, _, _)
OwnersLoopStep(src, o, owners) ==
    IF o.owner = NoList THEN [owners |-> owners, pos |-> o.pos, errors |-> o.errors]
    ELSE OwnersLoop(src, o.pos, o.errors, Append(owners, o.owner[1]))

OwnersLoop(src, pos, errors, owners) ==
    OwnersLoopStep(src, ParseOwner(src, SkipWhitespace(src, pos), errors), owners)

\* Rule::new
ParsedRuleNew(pattern, owners) ==
    [pattern |-> pattern, owners |-> owners, leading_comments |-> <<>>,
     trailing_comment |-> NoList]

\* Parser::parse_rule at a `#` after the owners: the trailing comment
RuleWithComment(pattern, o, k) ==
    [ok |-> TRUE,
     rule |-> [pattern |-> pattern, owners |-> o.owners, leading_comments |-> <<>>,
               trailing_comment |-> Some(k.comment)],
     pos |-> k.pos, errors |-> o.errors]

\* Parser::parse_rule after the owners: the pattern terminator
RuleAfterOwners(src, pattern, o) ==
    IF Peek(src, o.pos) \in {CR, LF, NoChar}
    THEN [ok |-> TRUE, rule |-> ParsedRuleNew(pattern, o.owners),
          pos |-> o.pos, errors |-> o.errors]
    ELSE IF Peek(src, o.pos) = "#"
    THEN RuleWithComment(pattern, o, ParseComment(src, o.pos))
    ELSE [ok |-> FALSE, err |-> ParseErrorNew(<<"expected newline">>, SpanOf(o.pos, o.pos)),
          pos |-> o.pos, errors |-> o.errors]

\* a parse_rule that accepts an empty pattern
RuleAfterPatternUnchecked(src, p) ==
    RuleAfterOwners(src, p.pattern, OwnersLoop(src, p.pos, p.errors, <<>>))

\* Parser::parse_rule after the pattern
RuleAfterPattern(src, p) ==
    IF p.pattern.val = <<>>
    THEN [ok |-> FALSE, err |-> ParseErrorNew(<<"expected pattern">>, SpanOf(p.pos, p.pos)),
          pos |-> p.pos, errors |-> p.errors]
    ELSE RuleAfterOwners(src, p.pattern, OwnersLoop(src, p.pos, p.errors, <<>>))

\* Parser::parse_rule: Ok(rule) or Err(error), with the parser left behind
ParseRule(src, pos, errors) == RuleAfterPattern(src, ParsePattern(src, pos, errors))

\* the loop of Parser::parse; every iteration ends with skip_whitespace
RECURSIVE ParseLoop(_, _, _, _, _)
RECURSIVE ParseLoopAfterRule(_, _, _, _)
RECURSIVE ParseLoopAfterComment(_, _, _, _, _)
\* Parser::parse that never empties leading_comments: every rule also gets the
\* comments of the rules before it
ParseLoopAfterRuleKeep(src, r, rs, leading_comments) ==
    IF r.ok
    THEN ParseLoop(src, SkipWhitespace(src, r.pos), r.errors,
                   Append(rs, [r.rule EXCEPT !.leading_comments = leading_comments]),
                   leading_comments)
    ELSE [rules |-> rs, errors |-> Append(r.errors, r.err), pos |-> r.pos]

ParseLoopAfterRule(src, r, rs, leading_comments) ==
    IF r.ok
    THEN ParseLoop(src, SkipWhitespace(src, r.pos), r.errors,
                   Append(rs, [r.rule EXCEPT !.leading_comments = leading_comments]), <<>>)
    ELSE [rules |-> rs, errors |-> Append(r.errors, r.err), pos |-> r.pos]

ParseLoopAfterComment(src, k, errors, rs, leading_comments) ==
    ParseLoop(src, SkipWhitespace(src, k.pos), errors, rs, Append(leading_comments, k.comment))

ParseLoop(src, pos, errors, rs, leading_comments) ==
    IF Peek(src, pos) = NoChar THEN [rules |-> rs, errors |-> errors, pos |-> pos]
    ELSE IF Peek(src, pos) \in {CR, LF}
    THEN ParseLoop(src, SkipWhitespace(src, NextPos(src, pos)), errors, rs, leading_comments)
    ELSE IF Peek(src, pos) = "#"
    THEN ParseLoopAfterComment(src, ParseComment(src, pos), errors, rs, leading_comments)
    ELSE ParseLoopAfterRule(src, ParseRule(src, pos, errors), rs, leading_comments)

\* Parser::parse (and parse(source)): the ParseResult, with the final position
ParserParse(src) == ParseLoop(src, SkipWhitespace(src, 0), <<>>, <<>>, <<>>)

\* From<parser::Rule> for ruleset::Rule
RuleFrom(rule) ==
    [pattern |-> rule.pattern.val,
     owners |-> [i \in 1..Len(rule.owners) |-> rule.owners[i].val]]

\* the rules ParseResult::into_ruleset hands to RuleSet::new
IntoRulesetRules(result) == [i \in 1..Len(result.rules) |-> RuleFrom(result.rules[i])]

(***************************************************************************)
(* Segment-level specification: a Transition is constructed for a segment  *)
(* pattern and then asked about candidate path segments.                   *)
(***************************************************************************)
GlobChars == {"a", "*", "?", "\\"}
CandChars == {"a", "b", "*", "\\"}
Globs == SeqsUpTo(GlobChars, MaxGlobLen)
Candidates == SeqsUpTo(CandChars, MaxCandLen)

InitGlob ==
    /\ phase = "new"
    /\ rules = <<>> /\ patterns = <<>> /\ nfa = <<>> /\ next_pattern_id = 0 /\ cache = <<>>
    /\ q_path = <<>> /\ q_matches = <<>> /\ q_rule = None /\ q_owners = NoList
    /\ transition = None /\ candidate = <<>> /\ matched = FALSE
    /\ NotParsed
    /\ NotShared
    /\ NotTree
    /\ NotCalled
    /\ NotPnfa

NewTransition(g) ==
    /\ phase = "new"
    /\ transition' = TransitionNew(g, 1)
    /\ phase' = "transition"
    /\ UNCHANGED <<ruleVars, treeVars, pnfaVars, cliVars, wildVars, candidate, matched, parseVars, sharedVars>>

IsMatch(cand) ==
    /\ phase = "transition"
    /\ candidate' = cand
    /\ matched' = TransitionIsMatch(transition, cand)
    /\ phase' = "asked"
    /\ UNCHANGED <<ruleVars, treeVars, pnfaVars, cliVars, wildVars, transition, parseVars, sharedVars>>

NextGlob ==
    \/ \E g \in Globs : NewTransition(g)
    \/ \E cand \in Candidates : IsMatch(cand)

SpecGlob == InitGlob /\ [][NextGlob]_vars

(***************************************************************************)
(* Pattern-set specification: matcher_for_patterns builds a Matcher from a *)
(* list of patterns, and one path is matched against it.                   *)
(***************************************************************************)
PatSegs == {<<"a">>, <<"b">>, <<"*">>, <<"*", "*">>}
PathSegs == {<<"a">>, <<"b">>}

\* every pattern of up to MaxPatSegs segments, with and without a leading
\* and a trailing slash
PatternPool ==
    {(IF l THEN <<"/">> ELSE <<>>) \o Join(segs, "/") \o (IF t THEN <<"/">> ELSE <<>>) :
        l \in BOOLEAN, t \in BOOLEAN, segs \in SeqsUpTo(PatSegs, MaxPatSegs) \ {<<>>}}

\* patterns that share states when compiled together
SharePool ==
    {<<"/", "a">>, <<"a">>, <<"/", "a", "/">>, <<"a", "/">>, <<"/", "a", "/", "*">>,
     <<"/", "a", "/", "*", "*">>, <<"/", "a", "/", "b">>, <<"a", "/", "b">>,
     <<"*">>, <<"*", "*">>, <<"/", "*", "*", "/", "b">>,
     <<"/", "a", "/", "*", "*", "/", "b">>, <<"/", "a", "/", "*", "/">>,
     <<"/", "a", "/", "*", "/", "*", "*">>, <<"b">>}

\* test_anchoring: /script/foo, script/foo, /foo, foo
AnchoringPatterns ==
    << <<"/", "s", "/", "f">>, <<"s", "/", "f">>, <<"/", "f">>, <<"f">> >>

\* test_trailing_wildcards: /mammals/*, /fish/*/
TrailingWildcardPatterns ==
    << <<"/", "m", "/", "*">>, <<"/", "f", "/", "*", "/">> >>

\* test_infix_double_stars and test_leading_double_stars: /foo/**/qux, /foo/qux, /**/baz
DoubleStarPatterns ==
    << <<"/", "f", "/", "*", "*", "/", "q">>, <<"/", "f", "/", "q">>,
       <<"/", "*", "*", "/", "z">> >>

Fixtures == {AnchoringPatterns, TrailingWildcardPatterns, DoubleStarPatterns}

FixturePaths ==
    {<<"s", "/", "f">>, <<"f">>, <<"b", "/", "s", "/", "f">>,
     <<"m">>, <<"m", "/", "e">>, <<"m", "/", "e", "/", "z">>,
     <<"f", "/", "g">>, <<"f", "/", "g", "/", "c">>, <<"f", "/", "g", "/", "c", "/", "r">>,
     <<"f", "/", "q">>, <<"f", "/", "a", "/", "q">>, <<"f", "/", "a", "/", "b", "/", "q">>,
     <<"f", "/", "a">>, <<"b", "/", "q">>, <<"z">>, <<"x", "/", "z">>, <<"x", "/", "y", "/", "z">>}

PatternLists ==
    {<<p>> : p \in PatternPool} \cup {<<p, q>> : p \in SharePool, q \in SharePool} \cup Fixtures

\* paths written with a leading slash: /a, /a/b, /b/a/b
RootedPaths == {<<"/", "a">>, <<"/", "a", "/", "b">>, <<"/", "b", "/", "a", "/", "b">>}

MatchPaths ==
    {Join(segs, "/") : segs \in SeqsUpTo(PathSegs, MaxPathLen)} \cup FixturePaths
        \cup RootedPaths

InitMatch ==
    /\ phase = "new"
    /\ rules = <<>> /\ patterns = <<>> /\ nfa = <<>> /\ next_pattern_id = 0
    /\ cache = <<>>
    /\ q_path = <<>> /\ q_matches = <<>> /\ q_rule = None /\ q_owners = NoList
    /\ transition = None /\ candidate = <<>> /\ matched = FALSE
    /\ NotParsed
    /\ NotShared
    /\ NotTree
    /\ NotCalled
    /\ NotPnfa

\* matcher_for_patterns: Builder::new, Builder::add per pattern, Builder::build
MatcherForPatterns(ps) ==
    /\ phase = "new"
    /\ LET b == AddAll(BuilderNew, ps)
       IN  /\ nfa' = b.nfa
           /\ next_pattern_id' = b.next_pattern_id
    /\ patterns' = ps
    /\ cache' = EmptyCache
    /\ phase' = "built"
    /\ UNCHANGED <<rules, q_path, q_matches, q_rule, q_owners, globVars, treeVars, pnfaVars, cliVars, wildVars, parseVars, sharedVars>>

\* Matcher::matching_patterns
MatchPath(path) ==
    /\ phase = "built"
    /\ LET r == MatchingPatterns(nfa, cache, path)
       IN  /\ q_matches' = r.matches
           /\ cache' = r.cache
    /\ q_path' = path
    /\ phase' = "matched"
    /\ UNCHANGED <<rules, patterns, nfa, next_pattern_id, q_rule, q_owners, globVars, treeVars, pnfaVars, cliVars, wildVars, parseVars, sharedVars>>

NextMatch ==
    \/ \E ps \in PatternLists : MatcherForPatterns(ps)
    \/ \E path \in MatchPaths : MatchPath(path)

SpecMatch == InitMatch /\ [][NextMatch]_vars

(***************************************************************************)
(* Automaton specification: the same two operations as the pattern-set     *)
(* specification, over every pattern list and the short paths, for the     *)
(* properties of the automaton's shape and of its traversal.               *)
(***************************************************************************)
MaxNfaPathLen == 3

NfaPaths == {Join(segs, "/") : segs \in SeqsUpTo(PathSegs, MaxNfaPathLen)}

NextNfa ==
    \/ \E ps \in PatternLists : MatcherForPatterns(ps)
    \/ \E path \in NfaPaths : MatchPath(path)

SpecNfa == InitMatch /\ [][NextNfa]_vars

(***************************************************************************)
(* RuleSet specification: a RuleSet is constructed from a list of rules    *)
(* and then queried for owners, any number of times.                       *)
(***************************************************************************)
OwnerX == [value |-> "@x", kind |-> "User"]
OwnerY == [value |-> "@y", kind |-> "User"]
OwnerLists == {<<>>, <<OwnerX>>, <<OwnerY>>}
RulePatterns == {<<"a">>, <<"/", "a", "/", "b">>, <<"*">>}
RuleChoices == [pattern : RulePatterns, owners : OwnerLists]
RuleLists == SeqsUpTo(RuleChoices, MaxRules)
\* the paths asked about: none, one and two components, and one of three
RulePaths ==
    {<<>>, <<"a">>, <<"b">>,
     <<"a", "/", "a">>, <<"a", "/", "b">>, <<"b", "/", "a">>, <<"b", "/", "b">>,
     <<"a", "/", "b", "/", "a">>}

Init ==
    /\ phase = "new"
    /\ rules = <<>> /\ patterns = <<>> /\ nfa = <<>> /\ next_pattern_id = 0
    /\ cache = <<>>
    /\ q_path = <<>> /\ q_matches = <<>> /\ q_rule = None /\ q_owners = NoList
    /\ transition = None /\ candidate = <<>> /\ matched = FALSE
    /\ NotParsed
    /\ NotShared
    /\ NotTree
    /\ NotCalled
    /\ NotPnfa

\* RuleSet::new
RuleSetNew(rs) ==
    /\ phase = "new"
    /\ LET b == AddAll(BuilderNew, [i \in 1..Len(rs) |-> rs[i].pattern])
       IN  /\ nfa' = b.nfa
           /\ next_pattern_id' = b.next_pattern_id
    /\ rules' = rs
    /\ cache' = EmptyCache
    /\ phase' = "ready"
    /\ UNCHANGED <<patterns, q_path, q_matches, q_rule, q_owners, globVars, treeVars, pnfaVars, cliVars, wildVars, parseVars, sharedVars>>

\* RuleSet::owners, through RuleSet::matching_rule and Matcher::matching_patterns
QueryOwners(path) ==
    /\ phase \in {"ready", "queried"}
    /\ LET r == MatchingPatterns(nfa, cache, path)
           idx == MatchingRule(r.matches)
       IN  /\ q_matches' = r.matches
           /\ cache' = r.cache
           /\ q_rule' = idx
           /\ q_owners' = Owners(rules, idx)
    /\ q_path' = path
    /\ phase' = "queried"
    /\ UNCHANGED <<rules, patterns, nfa, next_pattern_id, globVars, treeVars, pnfaVars, cliVars, wildVars, parseVars, sharedVars>>

Next ==
    \/ \E rs \in RuleLists : RuleSetNew(rs)
    \/ \E path \in RulePaths : QueryOwners(path)

Spec == Init /\ [][Next]_vars

(***************************************************************************)
(* Text specification: a CODEOWNERS text is parsed, the result is turned   *)
(* into a RuleSet, and the RuleSet is asked for the owners of paths.       *)
(***************************************************************************)
MaxTextLines == 2

\* rule lines: f\*o @u, f*o @u, foo @u, /script/foo @a, script/foo @b, foo
TextLines ==
    {<<"f", "\\", "*", "o", " ", "@", "u">>,
     <<"f", "*", "o", " ", "@", "u">>,
     <<"f", "o", "o", " ", "@", "u">>,
     <<"/", "s", "c", "r", "i", "p", "t", "/", "f", "o", "o", " ", "@", "a">>,
     <<"s", "c", "r", "i", "p", "t", "/", "f", "o", "o", " ", "@", "b">>,
     <<"f", "o", "o">>}

Texts == {Join(ls, LF) : ls \in SeqsUpTo(TextLines, MaxTextLines) \ {<<>>}}

\* the paths asked about: f*o, foo, fo, script/foo, bar/script/foo
TextPaths ==
    {<<"f", "*", "o">>, <<"f", "o", "o">>, <<"f", "o">>,
     <<"s", "c", "r", "i", "p", "t", "/", "f", "o", "o">>,
     <<"b", "a", "r", "/", "s", "c", "r", "i", "p", "t", "/", "f", "o", "o">>}

InitText ==
    /\ phase = "new"
    /\ rules = <<>> /\ patterns = <<>> /\ nfa = <<>> /\ next_pattern_id = 0
    /\ cache = <<>>
    /\ q_path = <<>> /\ q_matches = <<>> /\ q_rule = None /\ q_owners = NoList
    /\ transition = None /\ candidate = <<>> /\ matched = FALSE
    /\ NotParsed
    /\ NotShared
    /\ NotTree
    /\ NotCalled
    /\ NotPnfa

\* parse(source)
TextParse(text) ==
    /\ phase = "new"
    /\ source' = text
    /\ LET r == ParserParse(text)
       IN  parsed' = [rules |-> r.rules, errors |-> r.errors]
    /\ phase' = "parsed"
    /\ UNCHANGED <<ruleVars, globVars, treeVars, pnfaVars, cliVars, wildVars, sharedVars, owner_value, owner_result>>

\* ParseResult::into_ruleset, through RuleSet::new
IntoRuleset ==
    /\ phase = "parsed"
    /\ LET rs == IntoRulesetRules(parsed)
           b == AddAll(BuilderNew, [i \in 1..Len(rs) |-> rs[i].pattern])
       IN  /\ rules' = rs
           /\ nfa' = b.nfa
           /\ next_pattern_id' = b.next_pattern_id
    /\ cache' = EmptyCache
    /\ phase' = "ready"
    /\ UNCHANGED <<patterns, q_path, q_matches, q_rule, q_owners, globVars, treeVars, pnfaVars, cliVars, wildVars, parseVars, sharedVars>>

NextText ==
    \/ \E text \in Texts : TextParse(text)
    \/ IntoRuleset
    \/ \E path \in TextPaths : QueryOwners(path)

SpecText == InitText /\ [][NextText]_vars

(***************************************************************************)
(* Parser specification: a text is handed to parse.                        *)
(***************************************************************************)
MaxSrcLen == 5
MaxOwnerLen == 6

SrcChars == {"a", "@", " ", "#", LF, "\\", NUL}

\* the sources of test_parser (parser.rs:296-400), with foo, bar, baz
\* shortened to a, b, c where the length allows
ParserFixtures ==
    {<<"f", "o", "o">>,
     <<"f", "o", "o", "\\", " ", " ">>,
     <<" ", "f", "o", "o", " ">>,
     <<"a", LF, "b", CR, LF, " ", LF, "c">>,
     <<"f", NUL, "o", "o">>,
     <<"f", "o", "o", " ", "b", "a", "r">>,
     <<"f", "o", "o", "#", "a", "b", "c">>,
     <<"f", "o", "o", " ", "@", "b", "a", "r">>,
     <<"a", "/", "b", " ", "@", "c", "/", "d", " ", "e", "@", "f", ".", "c", "o">>,
     <<LF, " ", "a", " ", "@", "b", "#", " ", "c", " ", LF>>,
     <<"#", " ", "a", LF, "a", " ", "#", " ", "b", LF, "#", " ", "c", LF, "#", " ", "d",
       LF, LF, "b", LF>>,
     <<"a", TAB, "b", TAB, "@", "c">>,
     <<"a", " ", "b", " ", "@", "c", CR, LF, "d">>,
     <<"a", " ", "a", " ", "@", "a">>,
     <<"a", " ", "a", " ", LF, "a">>,
     <<"a", " ", "@", "a", " ", "a", " ", "@", "b", " ", "#", "c", LF, "b", " ", "@", "a">>}

Sources == SeqsUpTo(SrcChars, MaxSrcLen) \cup ParserFixtures

NextParse == phase = "new" /\ \E text \in Sources : TextParse(text)

SpecParse == InitText /\ [][NextParse]_vars

(***************************************************************************)
(* codeowners-cli: print_parse_error, and the loop of main that calls it   *)
(* for every error of the ParseResult.                                     *)
(***************************************************************************)
\* str::strip_suffix('\r') of a line whose '\n' has been removed
StripCr(line) ==
    IF line # <<>> /\ Last(line) = CR THEN Front(line) ELSE line

\* the index of the first '\n' of the text, or 0
FirstLf(text) ==
    IF \E k \in 1..Len(text) : text[k] = LF
    THEN SetMin({k \in 1..Len(text) : text[k] = LF})
    ELSE 0

\* str::lines: the text is split after every '\n'; a piece loses its '\n'
\* and then a '\r' before it; a last piece without '\n' is kept as it is
RECURSIVE StrLines(_)
StrLinesAfter(text, k) ==
    IF k = 0 THEN <<text>>
    ELSE <<StripCr(SubSeq(text, 1, k - 1))>> \o StrLines(SubSeq(text, k + 1, Len(text)))

StrLines(text) == IF text = <<>> THEN <<>> ELSE StrLinesAfter(text, FirstLf(text))

\* the loop of print_parse_error over source.lines()
RECURSIVE LineLoop(_, _, _, _, _)
LineLoop(lines, span_start, line, line_start, line_end) ==
    IF lines = <<>> THEN [line |-> line, line_start |-> line_start, line_end |-> line_end]
    ELSE IF line_end + Len(Head(lines)) + 1 > span_start
    THEN [line |-> line, line_start |-> line_start,
          line_end |-> line_end + Len(Head(lines)) + 1]
    ELSE LineLoop(Tail(lines), span_start, line + 1,
                  line_end + Len(Head(lines)) + 1, line_end + Len(Head(lines)) + 1)

\* the slice &source[line_start..line_end] and the two repeat counts: an
\* index past the end, a reversed range or a negative count panics
PrintOutcome(src, error, at) ==
    [line |-> at.line, line_start |-> at.line_start, line_end |-> at.line_end,
     span |-> error.span,
     panicked |-> \/ at.line_start > at.line_end
                  \/ at.line_end > Len(src)
                  \/ error.span[1] < at.line_start
                  \/ error.span[2] < error.span[1]]

\* print_parse_error
PrintParseErrorOf(src, error) ==
    PrintOutcome(src, error, LineLoop(StrLines(src), error.span[1], 1, 0, 0))

\* the loop of main over parse_result.errors: a panic ends the process
RECURSIVE PrintAll(_, _, _)
PrintAll(src, errors, done) ==
    IF errors = <<>> THEN done
    ELSE IF PrintParseErrorOf(src, Head(errors)).panicked
    THEN Append(done, PrintParseErrorOf(src, Head(errors)))
    ELSE PrintAll(src, Tail(errors), Append(done, PrintParseErrorOf(src, Head(errors))))

(***************************************************************************)
(* CLI specification: a text is parsed and, when the ParseResult holds     *)
(* errors, main prints them.                                               *)
(***************************************************************************)
MaxCliSrcLen == 5

\* a letter (a pattern, or an owner that is invalid), the separators, and the
\* backslash, which alone makes an empty pattern
CliChars == {"a", " ", LF, CR, "\\"}

CliSources == SeqsUpTo(CliChars, MaxCliSrcLen)

\* main: the errors of the ParseResult are printed in order
PrintErrors ==
    /\ phase = "parsed"
    /\ parsed.errors # <<>>
    /\ printed' = PrintAll(source, parsed.errors, <<>>)
    /\ phase' = "printed"
    /\ UNCHANGED <<ruleVars, globVars, treeVars, pnfaVars, wildVars, parseVars, sharedVars>>

NextCli ==
    \/ phase = "new" /\ \E text \in CliSources : TextParse(text)
    \/ PrintErrors

SpecCli == InitText /\ [][NextCli]_vars

(***************************************************************************)
(* wildcard.rs: matches(pattern, cand), a loop over two indices with  *)
(* one remembered position to go back to.                                  *)
(***************************************************************************)
\* char_at
CharAt(s, idx) == IF idx < Len(s) THEN s[idx + 1] ELSE NoChar

\* the tail of the loop body of matches: go back to the remembered indices,
\* or return false
RECURSIVE WildLoop(_, _, _, _, _, _)
WildReset(pattern, cand, reset_indices, iterations) ==
    IF reset_indices # NoList /\ reset_indices[1][2] <= Len(cand)
    THEN WildLoop(pattern, cand, reset_indices[1][1], reset_indices[1][2],
                  reset_indices, iterations)
    ELSE [result |-> FALSE, iterations |-> iterations]

\* a loop that never remembers where a `*` was
WildLoopNoReset(pattern, cand, pattern_idx, candidate_idx, reset_indices, iterations) ==
    IF ~(pattern_idx < Len(pattern) \/ candidate_idx < Len(cand))
    THEN [result |-> TRUE, iterations |-> iterations]
    ELSE IF CharAt(pattern, pattern_idx) = "*"
    THEN WildLoop(pattern, cand, pattern_idx + 1, candidate_idx,
                  NoList, iterations + 1)
    ELSE IF /\ CharAt(pattern, pattern_idx) # NoChar
            /\ CharAt(cand, candidate_idx) # NoChar
            /\ \/ CharAt(pattern, pattern_idx) = "?"
               \/ CharAt(pattern, pattern_idx) = CharAt(cand, candidate_idx)
    THEN WildLoop(pattern, cand, pattern_idx + 1, candidate_idx + 1,
                  reset_indices, iterations + 1)
    ELSE WildReset(pattern, cand, reset_indices, iterations + 1)

\* the while loop of matches; iterations counts the executions of its body
WildLoop(pattern, cand, pattern_idx, candidate_idx, reset_indices, iterations) ==
    IF ~(pattern_idx < Len(pattern) \/ candidate_idx < Len(cand))
    THEN [result |-> TRUE, iterations |-> iterations]
    ELSE IF CharAt(pattern, pattern_idx) = "*"
    THEN WildLoop(pattern, cand, pattern_idx + 1, candidate_idx,
                  Some(<<pattern_idx, candidate_idx + 1>>), iterations + 1)
    ELSE IF /\ CharAt(pattern, pattern_idx) # NoChar
            /\ CharAt(cand, candidate_idx) # NoChar
            /\ \/ CharAt(pattern, pattern_idx) = "?"
               \/ CharAt(pattern, pattern_idx) = CharAt(cand, candidate_idx)
    THEN WildLoop(pattern, cand, pattern_idx + 1, candidate_idx + 1,
                  reset_indices, iterations + 1)
    ELSE WildReset(pattern, cand, reset_indices, iterations + 1)

\* wildcard::matches, with the number of loop iterations it took
WildcardMatches(pattern, cand) == WildLoop(pattern, cand, 0, 0, NoList, 0)

(***************************************************************************)
(* Wildcard specification: matches is called on a pattern and a cand. *)
(***************************************************************************)
MaxWildPatLen == 4
MaxWildCandLen == 4

WildPatChars == {"a", "b", "*", "?"}
WildCandChars == {"a", "b"}

\* test_exponential_match, shortened: a*a*a*b against aaaaaa
ExponentialPattern == <<"a", "*", "a", "*", "a", "*", "b">>
ExponentialCandidate == <<"a", "a", "a", "a", "a", "a">>

WildPatterns == SeqsUpTo(WildPatChars, MaxWildPatLen) \cup {ExponentialPattern}
WildCandidates == SeqsUpTo(WildCandChars, MaxWildCandLen) \cup {ExponentialCandidate}

\* matches(pattern, cand)
CallMatches(pattern, cand) ==
    /\ phase = "new"
    /\ wild' = [pattern |-> pattern, candidate |-> cand,
                result |-> WildcardMatches(pattern, cand).result,
                iterations |-> WildcardMatches(pattern, cand).iterations]
    /\ phase' = "wild"
    /\ UNCHANGED <<ruleVars, globVars, treeVars, pnfaVars, cliVars, parseVars, sharedVars>>

NextWild ==
    phase = "new" /\ \E pattern \in WildPatterns : \E cand \in WildCandidates :
                         CallMatches(pattern, cand)

SpecWild == InitText /\ [][NextWild]_vars

(***************************************************************************)
(* Specification SpecOwner: Owner::try_from on one string.                 *)
(***************************************************************************)
\* a letter, `@`, `/`, `.`, and `_`, which the first class of TEAM_REGEX leaves out
OwnerChars == {"a", "@", "/", ".", "_"}

OwnerValues == SeqsUpTo(OwnerChars, MaxOwnerLen)

\* Owner::try_from(value)
TryFrom(value) ==
    /\ owner_value' = value
    /\ owner_result' = OwnerTryFrom(value)
    /\ phase' = "classified"
    /\ UNCHANGED <<ruleVars, globVars, treeVars, pnfaVars, cliVars, wildVars, sharedVars, source, parsed>>

NextOwner == phase = "new" /\ \E value \in OwnerValues : TryFrom(value)

SpecOwner == InitText /\ [][NextOwner]_vars

(***************************************************************************)
(* path_tree.rs and tree_matcher.rs.  A PathTree is its vector of nodes;   *)
(* a node's children map is kept as the sequence of its (segment, NodeId)  *)
(* entries.  HashMap iteration order is unspecified: the walk below visits *)
(* the entries in the order of the sequence or in the reverse order.       *)
(***************************************************************************)
\* Node::new
NodeNew == [children |-> <<>>, paths |-> <<>>]

\* PathTree::new: the root node alone
PathTreeNew == <<NodeNew>>

\* PathTree::node
NodeOf(tree, id) == tree[id + 1]

\* HashMap::get on a node's children: the NodeId for the segment, or None
ChildGet(node, segment) ==
    IF \E i \in 1..Len(node.children) : node.children[i][1] = segment
    THEN node.children[CHOOSE i \in 1..Len(node.children) : node.children[i][1] = segment][2]
    ELSE None

\* PathTree::insert, the else branch: a new node becomes the child for the segment
PushChild(tree, current_node, segment) ==
    Append([tree EXCEPT ![current_node + 1].children = Append(@, <<segment, Len(tree)>>)],
           NodeNew)

\* PathTree::insert, the loop over the components and the final push of the path
RECURSIVE InsertFrom(_, _, _, _)
InsertFrom(tree, current_node, segments, path) ==
    IF segments = <<>> THEN [tree EXCEPT ![current_node + 1].paths = Append(@, path)]
    ELSE IF ChildGet(NodeOf(tree, current_node), Head(segments)) # None
    THEN InsertFrom(tree, ChildGet(NodeOf(tree, current_node), Head(segments)),
                    Tail(segments), path)
    ELSE InsertFrom(PushChild(tree, current_node, Head(segments)), Len(tree),
                    Tail(segments), path)

\* PathTree::insert
PathTreeInsert(tree, path) == InsertFrom(tree, 0, PathComponents(path), path)

\* the loop of matches_for_paths that inserts every path
RECURSIVE InsertAll(_, _)
InsertAll(tree, paths) ==
    IF paths = <<>> THEN tree
    ELSE InsertAll(PathTreeInsert(tree, Head(paths)), Tail(paths))

\* a next_states that does not follow the epsilon edges of the states it reaches
TreeNextStatesNoEpsilon(n, segment, from_states) == StepStates(n, from_states, segment)

\* TreeMatcher::next_states
TreeNextStates(n, segment, from_states) ==
    StepStates(n, from_states, segment)
        \o EpsilonNodes(n, StepStates(n, from_states, segment))

\* matches.entry(path).or_insert(Vec::new()).extend(ids)
ExtendEntry(matches, path, ids) ==
    [k \in DOMAIN matches \cup {path} |->
        IF k = path THEN (IF path \in DOMAIN matches THEN matches[path] ELSE <<>>) \o ids
        ELSE matches[k]]

\* the loop over node.paths for one terminal state
RECURSIVE ExtendPaths(_, _, _)
ExtendPaths(matches, paths, ids) ==
    IF paths = <<>> THEN matches
    ELSE ExtendPaths(ExtendEntry(matches, Head(paths), ids), Tail(paths), ids)

\* the loop over the states of a path node
RECURSIVE RecordMatches(_, _, _, _)
RecordMatches(n, states, paths, matches) ==
    IF states = <<>> \/ paths = <<>> THEN matches
    ELSE IF IsTerminal(StateOf(n, Head(states)))
    THEN RecordMatches(n, Tail(states), paths,
                       ExtendPaths(matches, paths, StateOf(n, Head(states)).terminal_for_patterns))
    ELSE RecordMatches(n, Tail(states), paths, matches)

\* the loop over node.children: the queue entries pushed for the children with
\* a non-empty state list
RECURSIVE PushChildren(_, _, _)
PushChildren(n, states, children) ==
    IF children = <<>> THEN <<>>
    ELSE (IF TreeNextStates(n, Head(children)[1], states) # <<>>
          THEN << <<TreeNextStates(n, Head(children)[1], states), Head(children)[2]>> >>
          ELSE <<>>)
         \o PushChildren(n, states, Tail(children))

Reverse(s) == [i \in 1..Len(s) |-> s[Len(s) + 1 - i]]

\* the while loop of matches_for_paths: pop an entry, record, push the children
RECURSIVE Walk(_, _, _, _, _)
Walk(n, tree, queue, matches, reversed) ==
    IF queue = <<>> THEN matches
    ELSE Walk(n, tree,
              Front(queue) \o PushChildren(n, Last(queue)[1],
                                IF reversed THEN Reverse(NodeOf(tree, Last(queue)[2]).children)
                                ELSE NodeOf(tree, Last(queue)[2]).children),
              RecordMatches(n, Last(queue)[1], NodeOf(tree, Last(queue)[2]).paths, matches),
              reversed)

\* HashMap::new for the matches
NoMatches == [k \in {} |-> <<>>]

\* TreeMatcher::matches_for_paths
MatchesForPaths(n, paths, reversed) ==
    Walk(n, InsertAll(PathTreeNew, paths), << <<InitialStates(n), 0>> >>, NoMatches, reversed)

(***************************************************************************)
(* Specification SpecTree: build_tree_matcher over a list of patterns,     *)
(* then matches_for_paths over a list of paths.                            *)
(***************************************************************************)
MaxTreePaths == 2

TreePatternLists ==
    {<<p>> : p \in SharePool} \cup {<<p, q>> : p \in SharePool, q \in SharePool} \cup Fixtures

\* no components, one to three components, a trailing separator that leaves
\* the components of a/b, and a root component
TreePaths ==
    {<<>>, <<"a">>, <<"a", "/", "b">>, <<"a", "/", "b", "/">>, <<"b", "/", "a", "/", "b">>,
     <<"/", "a">>}

TreePathLists == SeqsUpTo(TreePaths, MaxTreePaths)

\* Builder::new, Builder::add per pattern, Builder::build_tree_matcher
BuildTreeMatcher(ps) ==
    /\ phase = "new"
    /\ LET b == AddAll(BuilderNew, ps)
       IN  /\ nfa' = b.nfa
           /\ next_pattern_id' = b.next_pattern_id
    /\ patterns' = ps
    /\ phase' = "tree"
    /\ UNCHANGED <<rules, cache, q_path, q_matches, q_rule, q_owners, globVars, treeVars,
                   pnfaVars, cliVars, wildVars, parseVars, sharedVars>>

\* TreeMatcher::matches_for_paths
TreeMatch(paths, reversed) ==
    /\ tree_paths' = paths
    /\ tree_matches' = MatchesForPaths(nfa, paths, reversed)
    /\ phase' = "walked"
    /\ UNCHANGED <<ruleVars, globVars, pnfaVars, cliVars, wildVars, parseVars, sharedVars>>

NextTree ==
    \/ \E ps \in TreePatternLists : BuildTreeMatcher(ps)
    \/ phase = "tree" /\ \E paths \in TreePathLists : \E reversed \in BOOLEAN :
           TreeMatch(paths, reversed)

SpecTree == InitMatch /\ [][NextTree]_vars

(***************************************************************************)
(* src/nfa.rs: PatternNFA, which holds its automaton as parallel vectors   *)
(* indexed by state id, and its cache, and takes add_pattern and           *)
(* matching_patterns on the same object.  A BTreeMap is the sequence of    *)
(* its (key, value) entries in key order.                                  *)
(***************************************************************************)
\* the byte of a character of the model's alphabet: `*`, `.`, `?`, a..z
Letters == <<"a", "b", "c", "d", "e", "f", "g", "h", "i", "j", "k", "l", "m",
             "n", "o", "p", "q", "r", "s", "t", "u", "v", "w", "x", "y", "z">>

ByteOf(c) ==
    CASE c = "*" -> 42
      [] c = "." -> 46
      [] c = "?" -> 63
      [] OTHER -> 96 + (CHOOSE i \in 1..26 : Letters[i] = c)

\* Ord for String: byte-wise lexicographic order
RECURSIVE StrLess(_, _)
StrLess(a, b) ==
    IF b = <<>> THEN FALSE
    ELSE IF a = <<>> THEN TRUE
    ELSE IF Head(a) = Head(b) THEN StrLess(Tail(a), Tail(b))
    ELSE ByteOf(Head(a)) < ByteOf(Head(b))

\* BTreeMap::get is Some
BTreeContains(map, key) == \E i \in 1..Len(map) : map[i][1] = key

\* BTreeMap::get: the value under a key that is present
BTreeGet(map, key) == map[CHOOSE i \in 1..Len(map) : map[i][1] = key][2]

\* BTreeMap::insert of a key that is absent: the entry goes to its place in key order
BTreeInsert(map, key, value) ==
    LET before == Cardinality({i \in 1..Len(map) : StrLess(map[i][1], key)})
    IN  SubSeq(map, 1, before) \o << <<key, value>> >> \o SubSeq(map, before + 1, Len(map))

\* GlobTransition::new: the variant chosen for a glob
GlobTransitionNew(glob) ==
    LET n == Len(glob)
        leading_star == n >= 1 /\ glob[1] = "*"
        trailing_star == n >= 2 /\ glob[n] = "*"
        internal_wildcards == n >= 3 /\ has_wildcard(SubSeq(glob, 2, n - 1))
    IN  CASE ~leading_star /\ trailing_star /\ ~internal_wildcards ->
                 [kind |-> "Prefix", text |-> TrimEnd(glob, "*")]
          [] leading_star /\ ~trailing_star /\ ~internal_wildcards ->
                 [kind |-> "Suffix", text |-> TrimStart(glob, "*")]
          [] leading_star /\ trailing_star /\ ~internal_wildcards ->
                 [kind |-> "Contains", text |-> TrimBoth(glob, "*")]
          [] OTHER -> [kind |-> "Regex", re |-> pattern_to_regex(glob)]

\* GlobTransition::is_match
GlobTransitionIsMatch(g, s) ==
    CASE g.kind = "Regex" -> RegexIsMatch(g.re, s)
      [] g.kind = "Prefix" -> StartsWith(s, g.text)
      [] g.kind = "Suffix" -> EndsWith(s, g.text)
      [] g.kind = "Contains" -> Contains(s, g.text)

\* PatternNFA::new
PatternNFANew ==
    [states |-> << <<>> >>,
     literal_edges |-> << <<>> >>,
     wildcard_edges |-> <<None>>,
     complex_edges |-> << <<>> >>,
     double_star_edges |-> <<None>>,
     self_loop_edges |-> <<FALSE>>,
     transition_cache |-> EmptyCache,
     next_pattern_id |-> 0]

\* PatternNFA::add_state: the object with one more state, whose id is returned
PnfaAddState(p) ==
    [p |-> [p EXCEPT !.states = Append(@, <<>>),
                     !.literal_edges = Append(@, <<>>),
                     !.complex_edges = Append(@, <<>>),
                     !.wildcard_edges = Append(@, None),
                     !.double_star_edges = Append(@, None),
                     !.self_loop_edges = Append(@, FALSE)],
     id |-> Len(p.states)]

\* PatternNFA::add_literal_segment
AddLiteralSegment(p, prev_state_id, segment) ==
    IF BTreeContains(p.literal_edges[prev_state_id + 1], segment)
    THEN [p |-> p, id |-> BTreeGet(p.literal_edges[prev_state_id + 1], segment)]
    ELSE [p |-> [PnfaAddState(p).p EXCEPT !.literal_edges[prev_state_id + 1] =
                                              BTreeInsert(@, segment, Len(p.states))],
          id |-> Len(p.states)]

\* PatternNFA::add_complex_segment: the entry holds the GlobTransition and the target
AddComplexSegment(p, prev_state_id, segment) ==
    IF BTreeContains(p.complex_edges[prev_state_id + 1], segment)
    THEN [p |-> p, id |-> BTreeGet(p.complex_edges[prev_state_id + 1], segment)[2]]
    ELSE [p |-> [PnfaAddState(p).p EXCEPT !.complex_edges[prev_state_id + 1] =
                     BTreeInsert(@, segment, <<GlobTransitionNew(segment), Len(p.states)>>)],
          id |-> Len(p.states)]

\* PatternNFA::add_wildcard_segment
AddWildcardSegment(p, prev_state_id) ==
    IF p.wildcard_edges[prev_state_id + 1] # None
    THEN [p |-> p, id |-> p.wildcard_edges[prev_state_id + 1]]
    ELSE [p |-> [PnfaAddState(p).p EXCEPT !.wildcard_edges[prev_state_id + 1] = Len(p.states)],
          id |-> Len(p.states)]

\* PatternNFA::add_double_star_segment
AddDoubleStarSegment(p, prev_state_id) ==
    IF p.self_loop_edges[prev_state_id + 1] THEN [p |-> p, id |-> prev_state_id]
    ELSE IF p.double_star_edges[prev_state_id + 1] # None
    THEN [p |-> p, id |-> p.double_star_edges[prev_state_id + 1]]
    ELSE [p |-> [PnfaAddState(p).p EXCEPT !.self_loop_edges[Len(p.states) + 1] = TRUE,
                                          !.double_star_edges[prev_state_id + 1] = Len(p.states)],
          id |-> Len(p.states)]

\* PatternNFA::add_pattern_segment
AddPatternSegment(p, prev_state_id, segment) ==
    IF segment = <<"*">> THEN AddWildcardSegment(p, prev_state_id)
    ELSE IF segment = <<"*", "*">> THEN AddDoubleStarSegment(p, prev_state_id)
    ELSE IF has_wildcard(segment) THEN AddComplexSegment(p, prev_state_id, segment)
    ELSE AddLiteralSegment(p, prev_state_id, segment)

\* the fold of add_pattern over the pattern's segments
RECURSIVE FoldPatternSegments(_, _)
FoldPatternSegments(cur, segments) ==
    IF segments = <<>> THEN cur
    ELSE FoldPatternSegments(AddPatternSegment(cur.p, cur.id, Head(segments)), Tail(segments))

\* PatternNFA::add_pattern: the state the segments start from; every pattern
\* without a leading slash starts behind a double-star edge
PnfaStart(p, parts) ==
    IF parts.leading_slash THEN [p |-> p, id |-> START_STATE]
    ELSE AddDoubleStarSegment(p, START_STATE)

\* PatternNFA::add_pattern: one more wildcard segment after a trailing slash
PnfaWithChild(cur, parts) ==
    IF parts.trailing_slash THEN AddWildcardSegment(cur.p, cur.id) ELSE cur

\* PatternNFA::add_pattern: the closing double-star edge of every pattern whose
\* last segment is not the bare `*`
PnfaWithRecursion(cur, parts) ==
    IF Last(parts.segments) # <<"*">> THEN AddDoubleStarSegment(cur.p, cur.id) ELSE cur

\* State::set_terminal_for_pattern on the end state
PnfaMarkTerminal(cur, pattern_id) ==
    [cur.p EXCEPT !.states[cur.id + 1] = Append(@, pattern_id)]

\* PatternNFA::add_pattern; the cache is left as it is
PnfaAddPattern(p, pattern) ==
    LET parts == PatternParts(pattern)
        start == PnfaStart([p EXCEPT !.next_pattern_id = @ + 1], parts)
        folded == FoldPatternSegments(start, parts.segments)
        end == PnfaWithRecursion(PnfaWithChild(folded, parts), parts)
    IN  PnfaMarkTerminal(end, p.next_pattern_id)

\* the loop of add_pattern calls
RECURSIVE PnfaAddAll(_, _)
PnfaAddAll(p, pats) ==
    IF pats = <<>> THEN p
    ELSE PnfaAddAll(PnfaAddPattern(p, Head(pats)), Tail(pats))

\* PatternNFA::step: the complex edges of one state that match, in key order
RECURSIVE ComplexTargets(_, _)
ComplexTargets(edges, segment) ==
    IF edges = <<>> THEN <<>>
    ELSE (IF GlobTransitionIsMatch(Head(edges)[2][1], segment)
          THEN <<Head(edges)[2][2]>> ELSE <<>>)
         \o ComplexTargets(Tail(edges), segment)

\* PatternNFA::step: what one state pushes: literal, complex, wildcard, self loop
StateTargets(p, state_id, segment) ==
    (IF BTreeContains(p.literal_edges[state_id + 1], segment)
     THEN <<BTreeGet(p.literal_edges[state_id + 1], segment)>> ELSE <<>>)
    \o ComplexTargets(p.complex_edges[state_id + 1], segment)
    \o (IF p.wildcard_edges[state_id + 1] # None
        THEN <<p.wildcard_edges[state_id + 1]>> ELSE <<>>)
    \o (IF p.self_loop_edges[state_id + 1] THEN <<state_id>> ELSE <<>>)

\* PatternNFA::step: the loop over the states
RECURSIVE PnfaTargets(_, _, _)
PnfaTargets(p, states, segment) ==
    IF states = <<>> THEN <<>>
    ELSE StateTargets(p, Head(states), segment) \o PnfaTargets(p, Tail(states), segment)

\* PatternNFA::step: the double-star edges of the states reached
RECURSIVE PnfaEpsilonNodes(_, _)
PnfaEpsilonNodes(p, states) ==
    IF states = <<>> THEN <<>>
    ELSE (IF p.double_star_edges[Head(states) + 1] # None
          THEN <<p.double_star_edges[Head(states) + 1]>> ELSE <<>>)
         \o PnfaEpsilonNodes(p, Tail(states))

\* PatternNFA::step after the prefix's states are known
PnfaStepSegment(p, states, segment) ==
    PnfaTargets(p, states, segment) \o PnfaEpsilonNodes(p, PnfaTargets(p, states, segment))

\* PatternNFA::step: the states reached and the cache left behind
RECURSIVE PnfaStep(_, _, _, _)
RECURSIVE PnfaStepMiss(_, _, _, _)
PnfaStepMiss(p, path_segments, subpath, pre) ==
    [states |-> PnfaStepSegment(p, pre.states, Last(path_segments)),
     cache |-> SetCachedStatesFor(pre.cache, subpath, pre.states)]

PnfaStep(p, c, path_segments, start_states) ==
    IF path_segments = <<>> THEN [states |-> start_states, cache |-> c]
    ELSE IF Join(Front(path_segments), "/") \in DOMAIN c
    THEN [states |-> PnfaStepSegment(p, c[Join(Front(path_segments), "/")],
                                     Last(path_segments)),
          cache |-> c]
    ELSE PnfaStepMiss(p, path_segments, Join(Front(path_segments), "/"),
                      PnfaStep(p, c, Front(path_segments), start_states))

\* PatternNFA::matching_patterns: the start states
PnfaStartStates(p) ==
    IF p.double_star_edges[START_STATE + 1] # None
    THEN <<START_STATE, p.double_star_edges[START_STATE + 1]>>
    ELSE <<START_STATE>>

\* PatternNFA::matching_patterns: the HashSet collected from the terminal states
PnfaTerminalPatterns(p, states) ==
    UNION {Range(p.states[states[i] + 1]) : i \in 1..Len(states)}

\* PatternNFA::matching_patterns: the HashSet of ids and the cache left behind
PnfaMatchingPatterns(p, path) ==
    LET final == PnfaStep(p, p.transition_cache, PathComponents(path), PnfaStartStates(p))
    IN  [matches |-> PnfaTerminalPatterns(p, final.states), cache |-> final.cache]

(***************************************************************************)
(* Specification SpecPnfa: one PatternNFA takes add_pattern and            *)
(* matching_patterns calls in any order.                                   *)
(***************************************************************************)
MaxPnfaPatterns == 2

\* the patterns of test_literal_matches, test_prefix_matches and
\* test_anchoring_matches in short, a glob and a wildcard
PnfaPatterns ==
    {<<"/", "a", "/", "b">>, <<"b">>, <<"a", "/", "b">>, <<"a", "/">>, <<"a", "*">>,
     <<"/", "*", "/", "b">>}

PnfaPaths == {<<"a">>, <<"a", "/", "b">>, <<"b", "/", "a", "/", "b">>}

\* PatternNFA::new
InitPnfa ==
    /\ phase = "pnfa"
    /\ rules = <<>> /\ patterns = <<>> /\ nfa = <<>> /\ next_pattern_id = 0
    /\ cache = <<>>
    /\ q_path = <<>> /\ q_matches = <<>> /\ q_rule = None /\ q_owners = NoList
    /\ transition = None /\ candidate = <<>> /\ matched = FALSE
    /\ NotParsed
    /\ NotShared
    /\ NotTree
    /\ NotCalled
    /\ pnfa = PatternNFANew /\ p_matches = {}

\* PatternNFA::add_pattern
PnfaAdd(pattern) ==
    /\ Len(patterns) < MaxPnfaPatterns
    /\ pnfa' = PnfaAddPattern(pnfa, pattern)
    /\ patterns' = Append(patterns, pattern)
    /\ phase' = "pnfa"
    /\ UNCHANGED <<rules, nfa, next_pattern_id, cache, q_path, q_matches, q_rule, q_owners,
                   globVars, treeVars, p_matches, cliVars, wildVars, parseVars, sharedVars>>

\* PatternNFA::matching_patterns
PnfaMatch(path) ==
    /\ pnfa' = [pnfa EXCEPT !.transition_cache = PnfaMatchingPatterns(pnfa, path).cache]
    /\ p_matches' = PnfaMatchingPatterns(pnfa, path).matches
    /\ q_path' = path
    /\ phase' = "pmatched"
    /\ UNCHANGED <<rules, patterns, nfa, next_pattern_id, cache, q_matches, q_rule, q_owners,
                   globVars, treeVars, cliVars, wildVars, parseVars, sharedVars>>

NextPnfa ==
    \/ \E pattern \in PnfaPatterns : PnfaAdd(pattern)
    \/ \E path \in PnfaPaths : PnfaMatch(path)

SpecPnfa == InitPnfa /\ [][NextPnfa]_vars

(***************************************************************************)
(* Shared specification: one Matcher is built, may be cloned, and threads  *)
(* run matching_patterns on the Matchers concurrently.  The steps of a     *)
(* thread are the places where next_states takes and releases the cache's  *)
(* RwLock; what lies between them is local to the thread.                  *)
(***************************************************************************)
MaxMatchers == 2

\* lists of patterns: a, then /a/* and b, then /a/**/b with *
SharedPatternLists ==
    { << <<"a">> >>,
      << <<"/", "a", "/", "*">>, <<"b">> >>,
      << <<"/", "a", "/", "*", "*", "/", "b">>, <<"*">> >> }

\* the paths asked about: the empty path, a, a/b, a/a/b, /a
SharedPaths ==
    {<<>>, <<"a">>, <<"a", "/", "b">>, <<"a", "/", "a", "/", "b">>, <<"/", "a">>}

\* a cache allocation as Matcher::new makes it: an empty map behind a free lock
NewCacheCell == [map |-> EmptyCache, readers |-> {}, writer |-> 0]

InitShared ==
    /\ phase = "new"
    /\ rules = <<>> /\ patterns = <<>> /\ nfa = <<>> /\ next_pattern_id = 0
    /\ cache = <<>>
    /\ q_path = <<>> /\ q_matches = <<>> /\ q_rule = None /\ q_owners = NoList
    /\ transition = None /\ candidate = <<>> /\ matched = FALSE
    /\ NotParsed
    /\ NotShared
    /\ NotTree
    /\ NotCalled
    /\ NotPnfa

\* Builder::build after the patterns were added: Matcher::new
SharedBuild(ps) ==
    /\ phase = "new"
    /\ matchers' = <<[nfa |-> AddAll(BuilderNew, ps).nfa, cache |-> 1]>>
    /\ heap' = <<NewCacheCell>>
    /\ patterns' = ps
    /\ phase' = "shared"
    /\ UNCHANGED <<rules, nfa, next_pattern_id, cache, q_path, q_matches, q_rule, q_owners,
                   globVars, treeVars, pnfaVars, cliVars, wildVars, parseVars, threads>>

\* #[derive(Clone)] on Matcher: Nfa::clone copies the automaton, Arc::clone
\* yields another handle to the same allocation
MatcherClone(ms, hp, m) ==
    [matchers |-> Append(ms, [nfa |-> ms[m].nfa, cache |-> ms[m].cache]),
     heap |-> hp]

\* Matcher::clone (RuleSet::clone clones its Matcher)
SharedClone(m) ==
    /\ phase = "shared"
    /\ m \in 1..Len(matchers)
    /\ Len(matchers) < MaxMatchers
    /\ matchers' = MatcherClone(matchers, heap, m).matchers
    /\ heap' = MatcherClone(matchers, heap, m).heap
    /\ UNCHANGED <<phase, ruleVars, globVars, treeVars, pnfaVars, cliVars, wildVars, parseVars, threads>>

\* a key that names a prefix by its last component only
PrefixKeyLast(comps, k) == IF k = 0 THEN <<>> ELSE comps[k]

\* the key of the cache entry for the first k components
PrefixKey(comps, k) == Join(SubSeq(comps, 1, k), "/")

\* a step that leaves out the epsilon edges of the states it reaches
StepWithNoEpsilon(n, states, segment) == StepStates(n, states, segment)

\* the body of next_states after the prefix's states are known
StepWith(n, states, segment) ==
    LET next_states == StepStates(n, states, segment)
    IN  next_states \o EpsilonNodes(n, next_states)

\* Matcher::matching_patterns is called: the outermost next_states is entered
StartQuery(t, m, path) ==
    /\ phase = "shared"
    /\ threads[t].pc \in {"idle", "done"}
    /\ m \in 1..Len(matchers)
    /\ threads' = [threads EXCEPT ![t] =
                     [pc |-> "call", m |-> m, comps |-> PathComponents(path),
                      level |-> Len(PathComponents(path)), states |-> <<>>,
                      hit |-> FALSE, result |-> <<>>]]
    /\ UNCHANGED <<phase, ruleVars, globVars, treeVars, pnfaVars, cliVars, wildVars, parseVars, matchers, heap>>

\* next_states is entered with no segments: the start states are returned
ReturnStart(t) ==
    /\ threads[t].pc = "call"
    /\ threads[t].level = 0
    /\ threads' = [threads EXCEPT ![t].pc = "ret",
                                  ![t].states = InitialStates(matchers[threads[t].m].nfa)]
    /\ UNCHANGED <<phase, ruleVars, globVars, treeVars, pnfaVars, cliVars, wildVars, parseVars, matchers, heap>>

\* get_cached_states_for: transition_cache.read()
AcquireRead(t) ==
    /\ threads[t].pc = "call"
    /\ threads[t].level > 0
    /\ LET c == matchers[threads[t].m].cache
       IN  /\ heap[c].writer = 0
           /\ heap' = [heap EXCEPT ![c].readers = @ \cup {t}]
    /\ threads' = [threads EXCEPT ![t].pc = "reading"]
    /\ UNCHANGED <<phase, ruleVars, globVars, treeVars, pnfaVars, cliVars, wildVars, parseVars, matchers>>

\* a get_cached_states_for whose read guard outlives the call: the thread
\* goes on holding the read lock
GetCachedKeepGuard(t) ==
    /\ threads[t].pc = "reading"
    /\ LET th == threads[t]
           c == matchers[th.m].cache
           cached_states == GetCachedStatesFor(heap[c].map, PrefixKey(th.comps, th.level - 1))
       IN  threads' = [threads EXCEPT ![t] =
                 IF cached_states # NoList
                 THEN [th EXCEPT !.pc = "ret",
                                 !.hit = TRUE,
                                 !.states = StepWith(matchers[th.m].nfa, cached_states[1],
                                                     th.comps[th.level])]
                 ELSE [th EXCEPT !.pc = "call", !.level = th.level - 1]]
    /\ UNCHANGED <<phase, ruleVars, globVars, treeVars, pnfaVars, cliVars, wildVars, parseVars, matchers, heap>>

\* get_cached_states_for: .get(path).cloned() and the guard's drop; on a hit
\* the segment is stepped, on a miss next_states calls itself
GetCached(t) ==
    /\ threads[t].pc = "reading"
    /\ LET th == threads[t]
           c == matchers[th.m].cache
           cached_states == GetCachedStatesFor(heap[c].map, PrefixKey(th.comps, th.level - 1))
       IN  /\ heap' = [heap EXCEPT ![c].readers = @ \ {t}]
           /\ threads' = [threads EXCEPT ![t] =
                 IF cached_states # NoList
                 THEN [th EXCEPT !.pc = "ret",
                                 !.hit = TRUE,
                                 !.states = StepWith(matchers[th.m].nfa, cached_states[1],
                                                     th.comps[th.level])]
                 ELSE [th EXCEPT !.pc = "call", !.level = th.level - 1]]
    /\ UNCHANGED <<phase, ruleVars, globVars, treeVars, pnfaVars, cliVars, wildVars, parseVars, matchers>>

\* set_cached_states_for: transition_cache.write(), in the caller of the
\* next_states that has just returned
AcquireWrite(t) ==
    /\ threads[t].pc = "ret"
    /\ threads[t].level < Len(threads[t].comps)
    /\ LET c == matchers[threads[t].m].cache
       IN  /\ heap[c].writer = 0
           /\ heap[c].readers = {}
           /\ heap' = [heap EXCEPT ![c].writer = t]
    /\ threads' = [threads EXCEPT ![t].pc = "writing"]
    /\ UNCHANGED <<phase, ruleVars, globVars, treeVars, pnfaVars, cliVars, wildVars, parseVars, matchers>>

\* set_cached_states_for: .insert(path, states) and the guard's drop, then
\* the caller steps its segment
SetCached(t) ==
    /\ threads[t].pc = "writing"
    /\ LET th == threads[t]
           c == matchers[th.m].cache
       IN  /\ heap' = [heap EXCEPT ![c].writer = 0,
                                   ![c].map = SetCachedStatesFor(@, PrefixKey(th.comps, th.level),
                                                                 th.states)]
           /\ threads' = [threads EXCEPT ![t] =
                 [th EXCEPT !.pc = "ret",
                            !.level = th.level + 1,
                            !.states = StepWith(matchers[th.m].nfa, th.states,
                                                th.comps[th.level + 1])]]
    /\ UNCHANGED <<phase, ruleVars, globVars, treeVars, pnfaVars, cliVars, wildVars, parseVars, matchers>>

\* the outermost next_states has returned: matching_patterns collects the ids
FinishQuery(t) ==
    /\ threads[t].pc = "ret"
    /\ threads[t].level = Len(threads[t].comps)
    /\ threads' = [threads EXCEPT ![t].pc = "done",
                     ![t].result = TerminalPatterns(matchers[threads[t].m].nfa,
                                                    threads[t].states)]
    /\ UNCHANGED <<phase, ruleVars, globVars, treeVars, pnfaVars, cliVars, wildVars, parseVars, matchers, heap>>

NextShared ==
    \/ \E ps \in SharedPatternLists : SharedBuild(ps)
    \/ \E m \in 1..MaxMatchers : SharedClone(m)
    \/ \E t \in Threads : \E m \in 1..MaxMatchers : \E path \in SharedPaths : StartQuery(t, m, path)
    \/ \E t \in Threads : ReturnStart(t)
    \/ \E t \in Threads : AcquireRead(t)
    \/ \E t \in Threads : GetCached(t)
    \/ \E t \in Threads : AcquireWrite(t)
    \/ \E t \in Threads : SetCached(t)
    \/ \E t \in Threads : FinishQuery(t)

SpecShared == InitShared /\ [][NextShared]_vars

(***************************************************************************)
(* Fair shared specification: threads query one Matcher, and the lock is   *)
(* fair: a thread whose read() or write() can be granted again and again   *)
(* is granted it (strong fairness), and a thread that is not waiting for   *)
(* the lock keeps running (weak fairness).                                 *)
(***************************************************************************)
\* /a/**/b with *
LivePatternLists == { << <<"/", "a", "/", "*", "*", "/", "b">>, <<"*">> >> }

\* the empty path, a, a/b
LivePaths == {<<>>, <<"a">>, <<"a", "/", "b">>}

NextLive ==
    \/ \E ps \in LivePatternLists : SharedBuild(ps)
    \/ \E t \in Threads : \E path \in LivePaths : StartQuery(t, 1, path)
    \/ \E t \in Threads : ReturnStart(t)
    \/ \E t \in Threads : AcquireRead(t)
    \/ \E t \in Threads : GetCached(t)
    \/ \E t \in Threads : AcquireWrite(t)
    \/ \E t \in Threads : SetCached(t)
    \/ \E t \in Threads : FinishQuery(t)

FairLive ==
    \A t \in Threads :
        /\ WF_vars(ReturnStart(t))
        /\ SF_vars(AcquireRead(t))
        /\ WF_vars(GetCached(t))
        /\ SF_vars(AcquireWrite(t))
        /\ WF_vars(SetCached(t))
        /\ WF_vars(FinishQuery(t))

SpecLive == InitShared /\ [][NextLive]_vars /\ FairLive

(***************************************************************************)
(* What a pattern is to match, stated on the pattern's text and the path's *)
(* components: segment by segment, `**` standing for zero or more          *)
(* components and any other segment for one component that the segment's   *)
(* condition accepts.                                                      *)
(***************************************************************************)
DoubleStar == <<"*", "*">>
Star == <<"*">>

\* the segment pattern accepts the component
SegMatch(seg, comp) == TransitionIsMatch(TransitionNew(seg, 0), comp)

\* the segments consume exactly the components
RECURSIVE ExactMatch(_, _)
ExactMatch(segs, comps) ==
    IF segs = <<>> THEN comps = <<>>
    ELSE IF Head(segs) = DoubleStar
    THEN \/ ExactMatch(Tail(segs), comps)
         \/ comps # <<>> /\ ExactMatch(segs, Tail(comps))
    ELSE /\ comps # <<>>
         /\ SegMatch(Head(segs), Head(comps))
         /\ ExactMatch(Tail(segs), Tail(comps))

IsFloating(parts) == ~parts.leading_slash /\ Len(parts.segments) = 1

\* a trailing slash or a final `**` asks for one more component
NeedsChild(parts) == parts.trailing_slash \/ Last(parts.segments) = DoubleStar

\* every final segment but the bare `*` also matches what lies beneath
IsRecursive(parts) == Last(parts.segments) # Star

\* the pattern matches the components, starting at the first one
AnchoredAccepts(parts, comps) ==
    LET segs == parts.segments \o (IF NeedsChild(parts) THEN <<Star>> ELSE <<>>)
    IN  \E k \in 0..Len(comps) :
            /\ ExactMatch(segs, SubSeq(comps, 1, k))
            /\ (k = Len(comps) \/ IsRecursive(parts))

\* the pattern matches the path with these components
Accepts(pattern, comps) ==
    LET parts == PatternParts(pattern)
    IN  IF IsFloating(parts)
        THEN \E j \in 0..Len(comps) : AnchoredAccepts(parts, SubSeq(comps, j + 1, Len(comps)))
        ELSE AnchoredAccepts(parts, comps)

\* the 0-based indices of the rules whose pattern matches the path
MatchingRuleIds(rs, path) ==
    {i \in 0..(Len(rs) - 1) : Accepts(rs[i + 1].pattern, PathComponents(path))}

\* C1: matching_rule returns the last rule, in file order, whose pattern
\* matches the path, and None when no pattern matches; owners reports that
\* rule's owners, so a later rule that also matches replaces the owners
\* an earlier matching rule would give.
ClaimC1 ==
    phase = "queried" =>
        LET M == MatchingRuleIds(rules, q_path)
        IN  /\ M = {} => (q_rule = None /\ q_owners = NoList)
            /\ M # {} =>
                /\ q_rule = SetMax(M)
                /\ rules[SetMax(M) + 1].owners # <<>>
                      => q_owners = Some(rules[SetMax(M) + 1].owners)
            /\ (Len(rules) - 1) \in M => q_rule = Len(rules) - 1

\* two rules match the path, with different owners, and the later one is reported
WitnessC1 ==
    /\ phase = "queried"
    /\ Len(rules) = 2
    /\ MatchingRuleIds(rules, q_path) = {0, 1}
    /\ rules[1].owners = <<OwnerX>>
    /\ rules[2].owners = <<OwnerY>>
    /\ q_rule = 1
    /\ q_owners = Some(<<OwnerY>>)

\* C2: when the last matching rule has no owners, owners returns None, also
\* when an earlier rule that has owners matches the path.
ClaimC2 ==
    phase = "queried" =>
        LET M == MatchingRuleIds(rules, q_path)
        IN  (M # {} /\ rules[SetMax(M) + 1].owners = <<>>) => q_owners = NoList

\* an owned rule matches, a later unowned rule matches too, and None is returned
WitnessC2 ==
    /\ phase = "queried"
    /\ Len(rules) = 2
    /\ MatchingRuleIds(rules, q_path) = {0, 1}
    /\ rules[1].owners = <<OwnerX>>
    /\ rules[2].owners = <<>>
    /\ q_owners = NoList

(***************************************************************************)
(* Claims on the pattern-set specification.                                *)
(***************************************************************************)
\* the components of the path of the last query
QComps == PathComponents(q_path)

\* the ids the last query returned, as a set
QIds == Range(q_matches)

\* the parts of the pattern with 0-based id i
PartsOf(i) == PatternParts(patterns[i + 1])

PatternIds == 0..(Len(patterns) - 1)

HasDoubleStar(segs) == \E k \in 1..Len(segs) : segs[k] = DoubleStar

\* the first Len(segs) components stand one for one for the segments
OneForOne(segs, comps) ==
    /\ Len(comps) >= Len(segs)
    /\ \A k \in 1..Len(segs) : segs[k] = DoubleStar \/ SegMatch(segs[k], comps[k])

\* does a fresh Matcher over the automaton report id i for these components
FreshHit(i, comps) ==
    i \in Range(MatchingPatterns(nfa, EmptyCache, Join(comps, "/")).matches)

\* C3: a pattern with no leading slash and exactly one segment floats: it
\* matches iff its segment matches a component at some depth (one that has a
\* child, when the pattern ends in a slash).  A pattern with a leading slash
\* or several segments is anchored: it matches only if its first segment
\* matches the first component.  test_anchoring gives the expected ids.
ClaimC3 ==
    phase = "matched" =>
        /\ \A i \in PatternIds :
            LET parts == PartsOf(i)
                segs == parts.segments
                depth == Len(QComps) - (IF parts.trailing_slash THEN 1 ELSE 0)
            IN  /\ (IsFloating(parts) /\ segs[1] # DoubleStar) =>
                      (i \in QIds <=> \E k \in 1..depth : SegMatch(segs[1], QComps[k]))
                /\ (~IsFloating(parts) /\ segs[1] # DoubleStar /\ i \in QIds) =>
                      (Len(QComps) >= 1 /\ SegMatch(segs[1], QComps[1]))
        /\ (patterns = AnchoringPatterns /\ q_path = <<"b", "/", "s", "/", "f">>)
              => QIds = {3}
        /\ (patterns = AnchoringPatterns /\ q_path = <<"s", "/", "f">>)
              => QIds = {0, 1, 3}

\* bar/script/foo is matched by the floating foo alone
WitnessC3 ==
    /\ phase = "matched"
    /\ patterns = AnchoringPatterns
    /\ q_path = <<"b", "/", "s", "/", "f">>
    /\ QIds = {3}

\* C4: a pattern with no trailing slash whose last segment is not the bare
\* `*` matches the path made of its segments and every path that extends it.
ClaimC4 ==
    phase = "matched" =>
        \A i \in PatternIds :
            LET parts == PartsOf(i)
            IN  (/\ ~parts.trailing_slash
                 /\ Last(parts.segments) # Star
                 /\ OneForOne(parts.segments, QComps)) => i \in QIds

\* a two-segment pattern matches a path that extends it by two components
WitnessC4 ==
    /\ phase = "matched"
    /\ patterns = << <<"a", "/", "b">> >>
    /\ q_path = <<"a", "/", "b", "/", "b", "/", "a">>
    /\ QIds = {0}

\* C5: an anchored pattern whose last segment is the bare `*` (and that has
\* no `**`) matches exactly the paths with one component per segment, one
\* more when a trailing slash follows the `*`: neither the parent nor anything
\* deeper.  A pattern with any other last segment matches recursively: it
\* matches every path of which it matches a proper prefix.
ClaimC5 ==
    phase = "matched" =>
        /\ \A i \in PatternIds :
            LET parts == PartsOf(i)
                segs == parts.segments \o (IF parts.trailing_slash THEN <<Star>> ELSE <<>>)
            IN  /\ (/\ Last(parts.segments) = Star
                    /\ ~IsFloating(parts)
                    /\ ~HasDoubleStar(parts.segments)) =>
                      (i \in QIds <=> (Len(QComps) = Len(segs) /\ OneForOne(segs, QComps)))
                /\ (/\ Last(parts.segments) # Star
                    /\ \E k \in 0..(Len(QComps) - 1) : FreshHit(i, SubSeq(QComps, 1, k)))
                      => i \in QIds
        /\ (patterns = TrailingWildcardPatterns /\ q_path = <<"m">>) => 0 \notin QIds
        /\ (patterns = TrailingWildcardPatterns /\ q_path = <<"m", "/", "e">>) => 0 \in QIds
        /\ (patterns = TrailingWildcardPatterns /\ q_path = <<"m", "/", "e", "/", "z">>)
              => 0 \notin QIds

\* /mammals/* does not match mammals/equus/zebra
WitnessC5 ==
    /\ phase = "matched"
    /\ patterns = TrailingWildcardPatterns
    /\ q_path = <<"m", "/", "e", "/", "z">>
    /\ 0 \notin QIds

\* the pattern's segments are A, `**`, B with no `**` in A or B and B not empty
SplitsAt(segs, d) ==
    /\ d \in 1..(Len(segs) - 1)
    /\ segs[d] = DoubleStar
    /\ ~HasDoubleStar(SubSeq(segs, 1, d - 1))
    /\ ~HasDoubleStar(SubSeq(segs, d + 1, Len(segs)))

\* C6: a whole-segment `**` stands for zero or more components: a pattern
\* A/**/B matches exactly the paths that start with components matching A,
\* then have any number of components, then components matching B (and then
\* anything, unless B ends in the bare `*`).
ClaimC6 ==
    phase = "matched" =>
        /\ \A i \in PatternIds :
            LET parts == PartsOf(i)
                segs == parts.segments
            IN  \A d \in 1..Len(segs) :
                  (SplitsAt(segs, d) /\ ~parts.trailing_slash) =>
                    LET A == SubSeq(segs, 1, d - 1)
                        B == SubSeq(segs, d + 1, Len(segs))
                    IN  i \in QIds <=>
                          \E m \in 0..Len(QComps) :
                            /\ Len(A) + m + Len(B) <= Len(QComps)
                            /\ OneForOne(A, QComps)
                            /\ OneForOne(B, SubSeq(QComps, Len(A) + m + 1, Len(QComps)))
                            /\ (IsRecursive(parts) \/ Len(A) + m + Len(B) = Len(QComps))
        /\ (patterns = DoubleStarPatterns /\
            q_path \in {<<"f", "/", "q">>, <<"f", "/", "a", "/", "q">>,
                        <<"f", "/", "a", "/", "b", "/", "q">>}) => 0 \in QIds
        /\ (patterns = DoubleStarPatterns /\
            q_path \in {<<"b", "/", "q">>, <<"f", "/", "a">>}) => 0 \notin QIds
        /\ (patterns = DoubleStarPatterns /\
            q_path \in {<<"z">>, <<"x", "/", "z">>, <<"x", "/", "y", "/", "z">>}) => 2 \in QIds

\* /foo/**/qux matches foo/a/b/qux
WitnessC6 ==
    /\ phase = "matched"
    /\ patterns = DoubleStarPatterns
    /\ q_path = <<"f", "/", "a", "/", "b", "/", "q">>
    /\ 0 \in QIds

\* C7: a pattern with a trailing slash (and no `**`) does not match the path
\* made of its segments and matches every path that extends it by one or
\* more components.
ClaimC7 ==
    phase = "matched" =>
        \A i \in PatternIds :
            LET parts == PartsOf(i)
            IN  (/\ parts.trailing_slash
                 /\ ~HasDoubleStar(parts.segments)
                 /\ OneForOne(parts.segments, QComps)) =>
                    (i \in QIds <=> Len(QComps) > Len(parts.segments))

\* the pattern texts are body/ and body/** for one body
SlashStarPair(p, q) ==
    /\ Len(p) >= 1 /\ Last(p) = "/"
    /\ q = p \o <<"*", "*">>

\* C8: for every pattern body P, P/ and P/** match the same paths.
ClaimC8 ==
    phase = "matched" =>
        \A i \in PatternIds, j \in PatternIds :
            SlashStarPair(patterns[i + 1], patterns[j + 1]) => (i \in QIds <=> j \in QIds)

(***************************************************************************)
(* The glob language of a segment pattern: `*` stands for any, possibly    *)
(* empty, run of characters, `?` for exactly one character, and every      *)
(* other character for itself.  With escapes, a backslash followed by a    *)
(* character c stands for c alone.                                         *)
(***************************************************************************)
RECURSIVE GlobLang(_, _)
GlobLang(pat, s) ==
    IF pat = <<>> THEN s = <<>>
    ELSE CASE Head(pat) = "*" -> \/ GlobLang(Tail(pat), s)
                                 \/ s # <<>> /\ GlobLang(pat, Tail(s))
           [] Head(pat) = "?" -> s # <<>> /\ GlobLang(Tail(pat), Tail(s))
           [] OTHER -> s # <<>> /\ Head(s) = Head(pat) /\ GlobLang(Tail(pat), Tail(s))

RECURSIVE EscGlobLang(_, _)
EscGlobLang(pat, s) ==
    IF pat = <<>> THEN s = <<>>
    ELSE CASE Head(pat) = "\\" /\ Len(pat) >= 2 ->
                /\ s # <<>>
                /\ Head(s) = pat[2]
                /\ EscGlobLang(SubSeq(pat, 3, Len(pat)), Tail(s))
           [] Head(pat) = "*" -> \/ EscGlobLang(Tail(pat), s)
                                 \/ s # <<>> /\ EscGlobLang(pat, Tail(s))
           [] Head(pat) = "?" -> s # <<>> /\ EscGlobLang(Tail(pat), Tail(s))
           [] OTHER -> s # <<>> /\ Head(s) = Head(pat) /\ EscGlobLang(Tail(pat), Tail(s))

HasBackslash(pat) == \E i \in 1..Len(pat) : pat[i] = "\\"

\* every backslash of the pattern is followed by the character it escapes
RECURSIVE WellEscaped(_)
WellEscaped(pat) ==
    IF pat = <<>> THEN TRUE
    ELSE IF Head(pat) = "\\" THEN Len(pat) >= 2 /\ WellEscaped(SubSeq(pat, 3, Len(pat)))
    ELSE WellEscaped(Tail(pat))

\* C9: for a segment pattern without backslashes, Transition::is_match
\* returns true exactly for the candidates in the glob language of the
\* pattern, `*` and `?` being wildcards wherever they occur in the segment.
ClaimC9 ==
    (phase = "asked" /\ ~HasBackslash(transition.path_segment))
        => (matched <=> GlobLang(transition.path_segment, candidate))

\* C10: a segment containing a backslash is compiled to a Regex condition
\* in which a backslash followed by c matches only the character c.
ClaimC10 ==
    (/\ phase = "asked"
     /\ HasBackslash(transition.path_segment)
     /\ WellEscaped(transition.path_segment))
        => /\ transition.matcher.kind = "Regex"
           /\ matched <=> EscGlobLang(transition.path_segment, candidate)

(***************************************************************************)
(* End-to-end scenarios on CODEOWNERS text.                                *)
(***************************************************************************)
OwnerU == OwnerNew(<<"@", "u">>, "User")
OwnerA == OwnerNew(<<"@", "a">>, "User")
OwnerB == OwnerNew(<<"@", "b">>, "User")

EscapedStarText == <<"f", "\\", "*", "o", " ", "@", "u">>
PathFStarO == <<"f", "*", "o">>
PathFoo == <<"f", "o", "o">>

\* C11: for the text `f\*o @u`, the escaped wildcard matches only the literal
\* character: owners(`f*o`) is [@u] and owners(`foo`) is None.
ClaimC11 ==
    (phase = "queried" /\ source = EscapedStarText) =>
        /\ q_path = PathFStarO => q_owners = Some(<<OwnerU>>)
        /\ q_path = PathFoo => q_owners = NoList

AnchoringText ==
    Join(<< <<"/", "s", "c", "r", "i", "p", "t", "/", "f", "o", "o", " ", "@", "a">>,
            <<"s", "c", "r", "i", "p", "t", "/", "f", "o", "o", " ", "@", "b">> >>, LF)
PathScriptFoo == <<"s", "c", "r", "i", "p", "t", "/", "f", "o", "o">>
PathBarScriptFoo == <<"b", "a", "r", "/", "s", "c", "r", "i", "p", "t", "/", "f", "o", "o">>

ClaimC13 ==
    phase = "matched" =>
        \A i \in PatternIds :
            (patterns[i + 1] \in {Star, DoubleStar} /\ Len(QComps) >= 1) => i \in QIds

\* `**` was added after another pattern and matched a path of three components
WitnessC13 ==
    /\ phase = "matched"
    /\ Len(patterns) = 2
    /\ patterns[2] = DoubleStar
    /\ Len(QComps) = 3
    /\ 1 \in QIds

\* `*` matched a path of four components
WitnessC13Star ==
    /\ phase = "matched"
    /\ patterns = <<Star>>
    /\ Len(QComps) = 4
    /\ 0 \in QIds

\* the sequence has no element twice
NoDuplicates(s) == \A i \in 1..Len(s) : \A j \in 1..Len(s) : s[i] = s[j] => i = j

\* C14: matching_patterns returns each matching pattern id exactly once, for
\* every pattern set and path, although the active state list may hold a
\* state several times.
ClaimC14 == phase = "matched" => NoDuplicates(q_matches)

(***************************************************************************)
(* Concurrent queries and clones.                                          *)
(***************************************************************************)
\* the components joined back into a path
ThreadPath(t) == Join(threads[t].comps, "/")

\* what a fresh Matcher over the same automaton returns for the thread's path
FreshIds(t) ==
    Range(MatchingPatterns(matchers[threads[t].m].nfa, EmptyCache,
                           Join(threads[t].comps, "/")).matches)

\* C15: whatever queries came before on the same Matcher and however the
\* query interleaved with queries of other threads, matching_patterns returns
\* the set of ids that a fresh Matcher over the same NFA returns for the path.
ClaimC15 ==
    \A t \in Threads : threads[t].pc = "done" => Range(threads[t].result) = FreshIds(t)

\* a thread completed a query of three components that found a cached prefix
\* while the other thread was inside a query on the same Matcher
WitnessC15 ==
    \E t \in Threads : \E u \in Threads :
        /\ t # u
        /\ threads[t].pc = "done"
        /\ threads[t].hit
        /\ Len(threads[t].comps) = 3
        /\ threads[t].result # <<>>
        /\ threads[u].pc \in {"reading", "writing"}
        /\ threads[u].m = threads[t].m

\* the cache allocation behind Matcher m
CellOf(m) == heap[matchers[m].cache]

\* C16: a clone of a Matcher has a copy of the NFA and an empty cache of its
\* own: a step of a query on one Matcher neither reads nor changes the cache
\* of another Matcher, whichever of the two is the clone.
ClaimC16 ==
    [][/\ (Len(matchers) >= 1 /\ Len(matchers') > Len(matchers)) =>
            /\ \E m \in 1..Len(matchers) : matchers'[Len(matchers')].nfa = matchers[m].nfa
            /\ heap'[matchers'[Len(matchers')].cache].map = EmptyCache
            /\ \A m \in 1..Len(matchers) :
                   matchers'[Len(matchers')].cache # matchers[m].cache
       /\ \A t \in Threads : \A m \in 1..Len(matchers) :
            (threads'[t] # threads[t] /\ threads[t].m \notin {0, m})
                => heap'[matchers[m].cache] = CellOf(m)]_vars

\* C17: a leading `/` on the queried path is stripped before matching: the
\* ids returned for "/" + p are the ids returned for the relative path p.
ClaimC17 ==
    (phase = "matched" /\ Len(q_path) >= 2 /\ q_path[1] = "/") =>
        QIds = Range(MatchingPatterns(nfa, EmptyCache, Tail(q_path)).matches)

(***************************************************************************)
(* Parser claims.  A rule line is read as words separated by blanks: the   *)
(* first word is the pattern, the others are owner tokens.                 *)
(***************************************************************************)
\* the text is one line of words and single spaces, nothing else
PlainLine(src) ==
    \A i \in 1..Len(src) : src[i] \notin {"#", LF, CR, TAB, "\\", NUL}

\* the end (exclusive, 0-based) of the word that starts at offset pos
RECURSIVE WordEnd(_, _)
WordEnd(src, pos) ==
    IF pos >= Len(src) \/ src[pos + 1] = " " THEN pos ELSE WordEnd(src, pos + 1)

\* the words of the line from offset pos on, with their byte spans
RECURSIVE WordsFrom(_, _)
WordsFrom(src, pos) ==
    IF pos >= Len(src) THEN <<>>
    ELSE IF src[pos + 1] = " " THEN WordsFrom(src, pos + 1)
    ELSE LET e == WordEnd(src, pos)
         IN  <<[val |-> SubSeq(src, pos + 1, e), span |-> <<pos, e>>]>> \o WordsFrom(src, e)

\* the owners the words stand for, invalid tokens left out
RECURSIVE ValidOwners(_)
ValidOwners(words) ==
    IF words = <<>> THEN <<>>
    ELSE (IF OwnerTryFrom(Head(words).val).ok
          THEN <<[val |-> OwnerTryFrom(Head(words).val).owner, span |-> Head(words).span]>>
          ELSE <<>>) \o ValidOwners(Tail(words))

\* one error per invalid token, scoped to the token
RECURSIVE InvalidOwnerErrors(_)
InvalidOwnerErrors(words) ==
    IF words = <<>> THEN <<>>
    ELSE (IF OwnerTryFrom(Head(words).val).ok THEN <<>>
          ELSE <<[message |-> <<"invalid owner: ">> \o Head(words).val,
                  span |-> Head(words).span]>>) \o InvalidOwnerErrors(Tail(words))

\* C18: an owner token that fails classification yields exactly one error
\* `invalid owner: <token>` spanning the token, and the rule is still emitted
\* with its pattern and all of its valid owners, whatever follows the token.
ClaimC18 ==
    (phase = "parsed" /\ PlainLine(source) /\ WordsFrom(source, 0) # <<>>) =>
        LET words == WordsFrom(source, 0)
        IN  /\ parsed.errors = InvalidOwnerErrors(Tail(words))
            /\ Len(parsed.rules) = 1
            /\ parsed.rules[1].pattern = Head(words)
            /\ parsed.rules[1].owners = ValidOwners(Tail(words))

\* the text has an `expected pattern` error
HasExpectedPattern == \E i \in 1..Len(parsed.errors) : parsed.errors[i].message = <<"expected pattern">>

\* C19: only a rule with an empty pattern aborts parsing; after any other
\* error the later lines are still parsed, so a well-formed rule line that
\* ends the text (here the line `a`) appears in the rules.
ClaimC19 ==
    (/\ phase = "parsed"
     /\ ~HasExpectedPattern
     /\ \A i \in 1..Len(source) : source[i] # "\\"
     /\ Len(source) >= 2
     /\ source[Len(source) - 1] = LF
     /\ source[Len(source)] = "a") =>
        /\ parsed.rules # <<>>
        /\ Last(parsed.rules).pattern = [val |-> <<"a">>, span |-> <<Len(source) - 1, Len(source)>>]
        /\ Last(parsed.rules).owners = <<>>

\* the number of backslashes that immediately precede the character at i (1-based)
RECURSIVE BackslashesBefore(_, _)
BackslashesBefore(src, i) ==
    IF i > 1 /\ src[i - 1] = "\\" THEN 1 + BackslashesBefore(src, i - 1) ELSE 0

\* the character at i is escaped: an odd number of backslashes precedes it
IsEscaped(src, i) == BackslashesBefore(src, i) % 2 = 1

\* the pattern ends before the first unescaped blank, `#`, CR or LF
PatternEnd(src) ==
    LET stops == {i \in 1..Len(src) : src[i] \in {" ", TAB, "#", CR, LF} /\ ~IsEscaped(src, i)}
    IN  IF stops = {} THEN Len(src) ELSE SetMin(stops) - 1

\* the raw text with the escaping backslashes taken out
RECURSIVE Unescaped(_, _, _)
Unescaped(src, i, end) ==
    IF i > end THEN <<>>
    ELSE (IF src[i] = "\\" /\ ~IsEscaped(src, i) THEN <<>> ELSE <<src[i]>>)
         \o Unescaped(src, i + 1, end)

\* C20: a backslash in a pattern is consumed and the character after it is
\* kept verbatim, also when it is `#`, a space or a tab; an unescaped space,
\* tab, `#`, CR or LF ends the pattern; the span covers the raw text with
\* its backslashes.
ClaimC20 ==
    (/\ phase = "parsed"
     /\ parsed.rules # <<>>
     /\ Len(source) >= 1
     /\ source[1] \notin {" ", TAB, "#", CR, LF}) =>
        /\ parsed.rules[1].pattern.val = Unescaped(source, 1, PatternEnd(source))
        /\ parsed.rules[1].pattern.span = <<0, PatternEnd(source)>>

\* test_parser: `foo\ ` followed by a space gives the pattern `foo ` with span [0,5)
WitnessC20 ==
    /\ phase = "parsed"
    /\ source = <<"f", "o", "o", "\\", " ", " ">>
    /\ Len(parsed.rules) = 1
    /\ parsed.rules[1].pattern = [val |-> <<"f", "o", "o", " ">>, span |-> <<0, 5>>]
    /\ parsed.errors = <<>>

\* the error reports a NUL in a pattern
IsNulError(e) == e.message = <<"patterns cannot contain null bytes">>

\* the number of NUL characters among the elements lo..hi of the sequence
RECURSIVE NulCount(_, _, _)
NulCount(s, lo, hi) ==
    IF lo > hi THEN 0 ELSE (IF s[lo] = NUL THEN 1 ELSE 0) + NulCount(s, lo + 1, hi)

\* the lines that hold a rule: something other than `#` after the leading blanks
RuleLineCount(src) ==
    LET lines == Split(src, LF)
    IN  Cardinality({i \in 1..Len(lines) :
            LET l == TrimStart(lines[i], " ") IN l # <<>> /\ l[1] # "#"})

\* C21: a NUL inside a pattern is an error but not fatal: each NUL yields
\* one error `patterns cannot contain null bytes` with the one-byte span of
\* that NUL, the rule is emitted with the NUL kept in its pattern, and the
\* rest of the line and of the file is parsed.
ClaimC21 ==
    phase = "parsed" =>
        /\ \A i \in 1..Len(parsed.errors) : IsNulError(parsed.errors[i]) =>
              LET sp == parsed.errors[i].span
              IN  /\ sp[2] = sp[1] + 1
                  /\ source[sp[1] + 1] = NUL
                  /\ \A j \in 1..Len(parsed.errors) : parsed.errors[j] = parsed.errors[i] => j = i
        /\ \A r \in 1..Len(parsed.rules) :
              LET p == parsed.rules[r].pattern
                  nuls == NulCount(source, p.span[1] + 1, p.span[2])
              IN  /\ NulCount(p.val, 1, Len(p.val)) = nuls
                  /\ Cardinality({i \in 1..Len(parsed.errors) :
                         /\ IsNulError(parsed.errors[i])
                         /\ parsed.errors[i].span[1] >= p.span[1]
                         /\ parsed.errors[i].span[2] <= p.span[2]}) = nuls
        /\ ((\A i \in 1..Len(source) : source[i] \notin {"\\", CR, TAB})
            /\ (\A i \in 1..Len(parsed.errors) : IsNulError(parsed.errors[i])))
              => Len(parsed.rules) = RuleLineCount(source)

\* a NUL in the pattern of the first of two rule lines
WitnessC21 ==
    /\ phase = "parsed"
    /\ source = <<"a", NUL, LF, "a">>
    /\ Len(parsed.rules) = 2
    /\ parsed.rules[1].pattern = [val |-> <<"a", NUL>>, span |-> <<0, 2>>]
    /\ parsed.rules[2].pattern = [val |-> <<"a">>, span |-> <<3, 4>>]
    /\ parsed.errors = <<[message |-> <<"patterns cannot contain null bytes">>, span |-> <<1, 2>>]>>

\* ---- C22: comments
\* the end of the line that holds position p (0-based): the next CR, LF or the end
RECURSIVE LineEnd(_, _)
LineEnd(src, p) ==
    IF p >= Len(src) \/ src[p + 1] \in {CR, LF} THEN p ELSE LineEnd(src, p + 1)

\* the comment that starts at position p, as the source spells it
CommentAt(src, p) ==
    [val |-> SubSeq(src, p + 1, LineEnd(src, p)), span |-> <<p, LineEnd(src, p)>>]

\* only blanks stand between the start of the line and position p
RECURSIVE OnlyBlanksBefore(_, _)
OnlyBlanksBefore(src, p) ==
    \/ p = 0
    \/ src[p] \in {CR, LF}
    \/ (src[p] \in {" ", TAB} /\ OnlyBlanksBefore(src, p - 1))

\* the comment lines of the source that start in lo..hi-1, in source order
RECURSIVE CommentLines(_, _, _)
CommentLines(src, lo, hi) ==
    IF lo >= hi THEN <<>>
    ELSE IF src[lo + 1] = "#" /\ OnlyBlanksBefore(src, lo)
    THEN <<CommentAt(src, lo)>> \o CommentLines(src, LineEnd(src, lo), hi)
    ELSE CommentLines(src, lo + 1, hi)

\* where a parsed rule ends: after its pattern, its owners and its trailing comment
RuleEnd(rule) ==
    IF rule.trailing_comment # NoList THEN rule.trailing_comment[1].span[2]
    ELSE IF rule.owners # <<>> THEN rule.owners[Len(rule.owners)].span[2]
    ELSE rule.pattern.span[2]

\* the first `#`, CR, LF or the end of the source at or after position p
RECURSIVE RuleTerminator(_, _)
RuleTerminator(src, p) ==
    IF p >= Len(src) \/ src[p + 1] \in {"#", CR, LF} THEN p ELSE RuleTerminator(src, p + 1)

\* the trailing comment the source gives the rule whose pattern ends at p
TrailingOf(src, p) ==
    IF RuleTerminator(src, p) < Len(src) /\ src[RuleTerminator(src, p) + 1] = "#"
    THEN Some(CommentAt(src, RuleTerminator(src, p)))
    ELSE NoList

\* every comment attached to a rule, leading and trailing, rule by rule
RECURSIVE AttachedComments(_, _)
AttachedComments(rs, k) ==
    IF k > Len(rs) THEN <<>>
    ELSE rs[k].leading_comments \o rs[k].trailing_comment \o AttachedComments(rs, k + 1)

\* C22: a rule's leading_comments are exactly the comment lines between the end
\* of the rule before it (or the start of the source) and its own pattern, in
\* source order and whatever blank lines lie between; its trailing_comment is
\* the `#` comment on its own line, if there is one; and no comment is attached
\* twice
ClaimC22 ==
    phase = "parsed" =>
        /\ \A k \in 1..Len(parsed.rules) :
               /\ parsed.rules[k].leading_comments =
                      CommentLines(source,
                                   IF k = 1 THEN 0 ELSE RuleEnd(parsed.rules[k - 1]),
                                   parsed.rules[k].pattern.span[1])
               /\ parsed.rules[k].trailing_comment =
                      TrailingOf(source, parsed.rules[k].pattern.span[2])
        /\ LET all == AttachedComments(parsed.rules, 1)
           IN  \A i, j \in 1..Len(all) : all[i].span = all[j].span => i = j

\* test_parser's example: one leading and one trailing comment on the first
\* rule, two leading comments and a blank line before the second
WitnessC22 ==
    /\ phase = "parsed"
    /\ Len(parsed.rules) = 2
    /\ parsed.rules[1].leading_comments = <<[val |-> <<"#", " ", "a">>, span |-> <<0, 3>>]>>
    /\ parsed.rules[1].trailing_comment = <<[val |-> <<"#", " ", "b">>, span |-> <<6, 9>>]>>
    /\ parsed.rules[2].leading_comments =
           <<[val |-> <<"#", " ", "c">>, span |-> <<10, 13>>],
             [val |-> <<"#", " ", "d">>, span |-> <<14, 17>>]>>
    /\ parsed.rules[2].trailing_comment = NoList
    /\ parsed.rules[2].pattern.span = <<19, 20>>

\* ---- C23: owner classification
\* the kinds whose regular expression matches the string
MatchingKinds(s) ==
    {k \in {"Email", "User", "Team"} :
        \/ (k = "Email" /\ EmailRegexIsMatch(s))
        \/ (k = "User" /\ UsernameRegexIsMatch(s))
        \/ (k = "Team" /\ TeamRegexIsMatch(s))}

\* try_from with the three checks tried in the given order, kinds being the
\* kinds whose expression matches
RECURSIVE TryFromInOrder(_, _, _)
TryFromInOrder(s, kinds, order) ==
    IF order = <<>> THEN [ok |-> FALSE, err |-> InvalidOwnerMessage(s)]
    ELSE IF Head(order) \in kinds
    THEN [ok |-> TRUE, owner |-> OwnerNew(s, Head(order))]
    ELSE TryFromInOrder(s, kinds, Tail(order))

CheckOrders ==
    {<<"Email", "User", "Team">>, <<"Email", "Team", "User">>, <<"User", "Email", "Team">>,
     <<"User", "Team", "Email">>, <<"Team", "Email", "User">>, <<"Team", "User", "Email">>}

\* the result is the classification of the string, kinds being the kinds whose
\* expression matches it
Classifies(result, s, kinds) ==
    /\ Cardinality(kinds) <= 1
    /\ \A k \in {"Email", "User", "Team"} :
           (result.ok /\ result.owner.kind = k) <=> k \in kinds
    /\ result.ok => result.owner.value = s
    /\ ~result.ok <=> kinds = {}
    /\ ~result.ok => result.err = <<"invalid owner: ">> \o s
    /\ \A o \in CheckOrders : TryFromInOrder(s, kinds, o) = result

\* C23: the owner is of a kind exactly when that kind's expression matches the
\* whole string, at most one expression matches, the error arises exactly when
\* none does and carries the string, and every order of the three checks gives
\* the same result
ClaimC23 ==
    phase = "classified" => Classifies(owner_result, owner_value, MatchingKinds(owner_value))

\* a team, which a user name with a slash in it would also be
WitnessC23 ==
    /\ phase = "classified"
    /\ owner_value = <<"@", "a", "/", "a">>
    /\ owner_result = [ok |-> TRUE, owner |-> [value |-> <<"@", "a", "/", "a">>, kind |-> "Team"]]

\* an email address, a user and a string of no kind
WitnessC23Email ==
    /\ phase = "classified"
    /\ owner_value = <<"a", "@", "a", ".", "a", "a">>
    /\ owner_result.ok /\ owner_result.owner.kind = "Email"

WitnessC23User ==
    /\ phase = "classified"
    /\ owner_value = <<"@", "a", "_">>
    /\ owner_result.ok /\ owner_result.owner.kind = "User"

WitnessC23Invalid ==
    /\ phase = "classified"
    /\ owner_value = <<"@", "a", "_", "/", "a">>
    /\ ~owner_result.ok

\* ---- C24: round trip
\* one rule written as its pattern followed by its owners' values, each after
\* a single space
RECURSIVE WriteOwners(_, _)
WriteOwners(owners, k) ==
    IF k > Len(owners) THEN <<>>
    ELSE <<" ">> \o owners[k].value \o WriteOwners(owners, k + 1)

WriteRule(rule) == rule.pattern \o WriteOwners(rule.owners, 1)

\* the rules written one per line
RECURSIVE WriteRules(_, _)
WriteRules(rs, k) ==
    IF k > Len(rs) THEN <<>>
    ELSE WriteRule(rs[k]) \o <<LF>> \o WriteRules(rs, k + 1)

\* C24: a text that parses without errors, written back from its parsed rules
\* and parsed again, gives the same patterns and owners in the same order
ClaimC24 ==
    (phase = "parsed" /\ parsed.errors = <<>>) =>
        IntoRulesetRules(ParserParse(WriteRules(IntoRulesetRules(parsed), 1)))
            = IntoRulesetRules(parsed)

\* ---- C25: pattern ids
\* the marks of the automaton: state id and position of every entry of
\* terminal_for_patterns that holds the pattern id
TerminalMarks(n, pattern_id) ==
    {<<s, i>> \in (0..(Len(n) - 1)) \X (1..Len(n)) :
        /\ i <= Len(StateOf(n, s).terminal_for_patterns)
        /\ StateOf(n, s).terminal_for_patterns[i] = pattern_id}

\* every pattern id marked anywhere in the automaton
TerminalIds(n) ==
    UNION {Range(StateOf(n, s).terminal_for_patterns) : s \in 0..(Len(n) - 1)}

\* the patterns of the first k rules
RulePatternsUpTo(rs, k) == [i \in 1..k |-> rs[i].pattern]

\* C25: after N adds the ids are 0..N-1: the builder that has taken the first
\* k patterns hands out k next, each id is marked on exactly one state, once,
\* no other id is marked, every id matching_patterns returns is below N and is
\* the index of a rule whose pattern accepts the path, and the index
\* matching_rule returns is an index of rules
ClaimC25 ==
    phase \in {"ready", "queried"} =>
        /\ next_pattern_id = Len(rules)
        /\ \A k \in 0..Len(rules) :
               AddAll(BuilderNew, RulePatternsUpTo(rules, k)).next_pattern_id = k
        /\ \A k \in 0..(Len(rules) - 1) :
               /\ Cardinality(TerminalMarks(nfa, k)) = 1
               /\ TerminalMarks(AddAll(BuilderNew, RulePatternsUpTo(rules, k + 1)).nfa, k)
                      = TerminalMarks(nfa, k)
               /\ TerminalMarks(AddAll(BuilderNew, RulePatternsUpTo(rules, k)).nfa, k) = {}
        /\ TerminalIds(nfa) = 0..(Len(rules) - 1)
        /\ \A i \in Range(q_matches) :
               /\ i \in 0..(Len(rules) - 1)
               /\ Accepts(rules[i + 1].pattern, PathComponents(q_path))
        /\ q_rule # None => q_rule \in 0..(Len(rules) - 1)

\* two rules, a path both match: both ids are returned and the later rule is indexed
WitnessC25 ==
    /\ phase = "queried"
    /\ Len(rules) = 2
    /\ rules[1].pattern # rules[2].pattern
    /\ Range(q_matches) = {0, 1}
    /\ q_rule = 1
    /\ Cardinality(TerminalMarks(nfa, 1)) = 1

\* the same pattern twice: one state carries both ids
WitnessC25Shared ==
    /\ phase = "queried"
    /\ Len(rules) = 2
    /\ rules[1].pattern = rules[2].pattern
    /\ \E s \in 0..(Len(nfa) - 1) : Range(StateOf(nfa, s).terminal_for_patterns) = {0, 1}
    /\ Range(q_matches) = {0, 1}

\* ---- C26: TreeMatcher against Matcher
\* the ids matches_for_paths reports for a path: none when the path is no key
TreeIds(p) == IF p \in DOMAIN tree_matches THEN Range(tree_matches[p]) ELSE {}

\* C26: for every path handed to matches_for_paths, the ids under its key are
\* the ids a Matcher built from the same patterns returns for it, and a path
\* is a key only if some pattern matches it
ClaimC26 ==
    phase = "walked" =>
        /\ \A i \in 1..Len(tree_paths) :
               TreeIds(tree_paths[i])
                   = Range(MatchingPatterns(nfa, EmptyCache, tree_paths[i]).matches)
        /\ \A p \in DOMAIN tree_matches :
               /\ p \in Range(tree_paths)
               /\ tree_matches[p] # <<>>
               /\ MatchingPatterns(nfa, EmptyCache, p).matches # <<>>

\* two paths that share the node of a/b, one more below it, two patterns: the
\* deeper path is matched by both patterns, and a/b by one
WitnessC26 ==
    /\ phase = "walked"
    /\ patterns = << <<"/", "a", "/", "b">>, <<"b">> >>
    /\ tree_paths = << <<"a", "/", "b">>, <<"b", "/", "a", "/", "b">> >>
    /\ TreeIds(<<"a", "/", "b">>) = {0, 1}
    /\ TreeIds(<<"b", "/", "a", "/", "b">>) = {1}

\* a path that no pattern matches is not a key
WitnessC26Absent ==
    /\ phase = "walked"
    /\ tree_paths = << <<"a">>, <<"a", "/", "b">> >>
    /\ DOMAIN tree_matches = {<<"a", "/", "b">>}

\* ---- C27, C28: the prefix cache under concurrent queries
\* C27: no step of any thread removes a key from a cache or changes the value
\* stored under a key: a write to a key that is present stores the value
\* already there.
ClaimC27 ==
    [][\A c \in 1..Len(heap) : \A key \in DOMAIN heap[c].map :
           /\ key \in DOMAIN heap'[c].map
           /\ heap'[c].map[key] = heap[c].map[key]]_vars

\* a duplicate miss: a thread holds the write lock for a key that another
\* query has stored since this thread missed it, and this thread is about to
\* store its own value
WitnessC27 ==
    \E t \in Threads :
        /\ threads[t].pc = "writing"
        /\ threads[t].level >= 1
        /\ PrefixKey(threads[t].comps, threads[t].level)
               \in DOMAIN heap[matchers[threads[t].m].cache].map

\* the states reached by stepping the first k components from the initial
\* states, with no cache at hand
FreshStates(n, comps, k) == NextStates(n, EmptyCache, SubSeq(comps, 1, k), InitialStates(n)).states

\* the component lists a query can have
SharedComps == {PathComponents(path) : path \in SharedPaths}

\* every entry of the cache of Matcher m is the key of a prefix and holds the
\* states of that prefix, and the keys are closed under shorter prefixes
CacheValid(m) ==
    \A key \in DOMAIN CellOf(m).map :
        \E comps \in SharedComps : \E k \in 0..(Len(comps) - 1) :
            /\ key = PrefixKey(comps, k)
            /\ CellOf(m).map[key] = FreshStates(matchers[m].nfa, comps, k)
            /\ \A j \in 0..k : PrefixKey(comps, j) \in DOMAIN CellOf(m).map

\* C28: every step that makes a Matcher or changes its cache leaves a cache in
\* which every entry is the key of a prefix and holds the states of that
\* prefix, and whose keys are closed under shorter prefixes; a key that a step
\* adds is the key of a proper prefix of the path of the thread that took the
\* step; and no step of a query for a path with no components changes a cache.
ClaimC28 ==
    [][/\ \A m \in 1..Len(matchers') :
              (m > Len(matchers) \/ heap'[matchers'[m].cache].map # heap[matchers'[m].cache].map) =>
              \A key \in DOMAIN heap'[matchers'[m].cache].map :
                  \E comps \in SharedComps : \E k \in 0..(Len(comps) - 1) :
                      /\ key = PrefixKey(comps, k)
                      /\ heap'[matchers'[m].cache].map[key]
                             = FreshStates(matchers'[m].nfa, comps, k)
                      /\ \A j \in 0..k :
                             PrefixKey(comps, j) \in DOMAIN heap'[matchers'[m].cache].map
       /\ \A c \in 1..Len(heap) : \A key \in DOMAIN heap'[c].map \ DOMAIN heap[c].map :
              \E t \in Threads :
                  /\ threads'[t] # threads[t]
                  /\ matchers[threads[t].m].cache = c
                  /\ \E k \in 0..(Len(threads[t].comps) - 1) :
                         key = PrefixKey(threads[t].comps, k)
       /\ \A t \in Threads :
              (threads'[t] # threads[t] /\ threads'[t].comps = <<>>) => heap' = heap]_vars

\* a query for a/a/b has finished: the cache holds its three proper prefixes,
\* the empty one included, and not the path itself
WitnessC28 ==
    \E t \in Threads :
        /\ threads[t].pc = "done"
        /\ threads[t].comps = << <<"a">>, <<"a">>, <<"b">> >>
        /\ DOMAIN CellOf(threads[t].m).map = {<<>>, <<"a">>, <<"a", "/", "a">>}
        /\ CacheValid(threads[t].m)

\* a query for the path with no components has finished on a fresh Matcher
WitnessC28Empty ==
    \E t \in Threads :
        /\ threads[t].pc = "done"
        /\ threads[t].comps = <<>>
        /\ CellOf(threads[t].m).map = EmptyCache
        /\ \A u \in Threads : u # t => threads[u].pc = "idle"

\* ---- C29: PatternNFA's cache across add_pattern
\* what a PatternNFA built afresh from the patterns added so far returns
FreshPnfaMatches(path) ==
    PnfaMatchingPatterns(PnfaAddAll(PatternNFANew, patterns), path).matches

\* C29: whatever add_pattern and matching_patterns calls came before,
\* matching_patterns returns the ids a freshly built PatternNFA holding the
\* same patterns returns for the path
ClaimC29 == phase = "pmatched" => p_matches = FreshPnfaMatches(q_path)

\* ---- C30: pattern independence
\* does a Builder holding the pattern alone report it for the path
AloneHit(pattern, path) ==
    MatchingPatterns(AddAll(BuilderNew, <<pattern>>).nfa, EmptyCache, path).matches # <<>>

\* C30: the automaton built from all the patterns reports pattern i for a path
\* exactly when the automaton built from pattern i alone reports it, whatever
\* patterns were added before or after it, copies of it included
ClaimC30 ==
    phase = "matched" =>
        \A i \in PatternIds : i \in QIds <=> AloneHit(patterns[i + 1], q_path)

\* /a/**/b and /a/b share the state behind a: a/a/b is reported for the first
\* alone and a/b for both
WitnessC30 ==
    /\ phase = "matched"
    /\ patterns = << <<"/", "a", "/", "*", "*", "/", "b">>, <<"/", "a", "/", "b">> >>
    /\ q_path = <<"a", "/", "a", "/", "b">>
    /\ QIds = {0}
    /\ \E s \in 0..(Len(nfa) - 1) :
           /\ StateOf(nfa, s).epsilon_transition # None
           /\ \E k \in 1..Len(StateOf(nfa, s).transitions) :
                  StateOf(nfa, s).transitions[k].path_segment = <<"b">>

\* the same pattern twice: both ids on one state, both reported
WitnessC30Twice ==
    /\ phase = "matched"
    /\ Len(patterns) = 2
    /\ patterns[1] = patterns[2]
    /\ QIds = {0, 1}

(***************************************************************************)
(* C31: prefix sharing in the builder.                                     *)
(***************************************************************************)
\* transitions_for of the builder's test: every (source, segment, target)
RECURSIVE TransitionsFrom(_, _)
TransitionsFrom(n, idx) ==
    IF idx >= Len(n) THEN <<>>
    ELSE [k \in 1..Len(StateOf(n, idx).transitions) |->
             <<idx, StateOf(n, idx).transitions[k].path_segment,
               StateOf(n, idx).transitions[k].target>>]
         \o TransitionsFrom(n, idx + 1)

TransitionsFor(n) == TransitionsFrom(n, 0)

\* the states that are the epsilon target of some state
EpsilonTargets(n) ==
    {n[s].epsilon_transition : s \in {x \in 1..Len(n) : n[x].epsilon_transition # None}}

\* the transitions out of state id labelled with the segment that lead elsewhere
OutgoingElsewhere(n, id, segment) ==
    {k \in 1..Len(StateOf(n, id).transitions) :
        /\ StateOf(n, id).transitions[k].path_segment = segment
        /\ StateOf(n, id).transitions[k].target # id}

\* the self-loops of state id
SelfLoops(n, id) ==
    {k \in 1..Len(StateOf(n, id).transitions) : StateOf(n, id).transitions[k].target = id}

\* C31: after any sequence of Builder::add calls, a state has at most one
\* outgoing transition per segment string that leads to a different state;
\* the only other transition is the single `*` self-loop of an epsilon-target
\* state; and /a/* followed by /a/b yields (0,a,1),(1,*,2),(1,b,3),(4,*,4).
ClaimC31 ==
    phase \in {"built", "matched"} =>
        /\ \A id \in 0..(Len(nfa) - 1) :
              /\ \A k \in 1..Len(StateOf(nfa, id).transitions) :
                    Cardinality(OutgoingElsewhere(nfa, id,
                        StateOf(nfa, id).transitions[k].path_segment)) <= 1
              /\ Cardinality(SelfLoops(nfa, id)) <= 1
              /\ \A k \in SelfLoops(nfa, id) :
                    /\ StateOf(nfa, id).transitions[k].path_segment = <<"*">>
                    /\ id \in EpsilonTargets(nfa)
        /\ (patterns = << <<"/", "a", "/", "*">>, <<"/", "a", "/", "b">> >> =>
               TransitionsFor(nfa) = << <<0, <<"a">>, 1>>, <<1, <<"*">>, 2>>,
                                        <<1, <<"b">>, 3>>, <<4, <<"*">>, 4>> >>)

\* the two patterns of the builder's test have been added
WitnessC31 ==
    /\ phase = "built"
    /\ patterns = << <<"/", "a", "/", "*">>, <<"/", "a", "/", "b">> >>
    /\ Len(nfa) = 5

\* a state carries both a `*` self-loop and a `*` transition to another state
WitnessC31Loop ==
    /\ phase = "built"
    /\ \E id \in 0..(Len(nfa) - 1) :
          /\ SelfLoops(nfa, id) # {}
          /\ OutgoingElsewhere(nfa, id, <<"*">>) # {}

(***************************************************************************)
(* C32: the shape of epsilon edges.                                        *)
(***************************************************************************)
\* C32: after any sequence of Builder::add calls, a state has a `*`
\* self-loop iff it is the epsilon target of some state; the epsilon field of
\* a state names at most one state, another state of the automaton; and a
\* state with a self-loop has no epsilon target, so epsilon edges never chain.
ClaimC32 ==
    phase \in {"built", "matched"} =>
        \A id \in 0..(Len(nfa) - 1) :
            /\ (\E k \in SelfLoops(nfa, id) :
                    StateOf(nfa, id).transitions[k].path_segment = <<"*">>)
                   <=> id \in EpsilonTargets(nfa)
            /\ StateOf(nfa, id).epsilon_transition \in ({None} \cup (0..(Len(nfa) - 1))) \ {id}
            /\ SelfLoops(nfa, id) # {} => StateOf(nfa, id).epsilon_transition = None
            /\ StateOf(nfa, id).epsilon_transition # None =>
                   StateOf(nfa, StateOf(nfa, id).epsilon_transition).epsilon_transition = None

\* add_epsilon_transition has been called on a state that is an epsilon
\* target: the floating pattern `**`
WitnessC32 ==
    /\ phase = "built"
    /\ patterns = << <<"*", "*">> >>
    /\ Len(nfa) = 4
    /\ EpsilonTargets(nfa) = {1, 3}

\* an automaton with two epsilon targets
WitnessC32Two ==
    /\ phase = "built"
    /\ Cardinality(EpsilonTargets(nfa)) >= 2

(***************************************************************************)
(* C33: the one-hop epsilon closure against the transitive closure.        *)
(***************************************************************************)
\* the transitive epsilon closure of a set of states
RECURSIVE EpsilonClosure(_, _)
EpsilonClosure(n, S) ==
    LET T == S \cup {StateOf(n, s).epsilon_transition :
                        s \in {x \in S : StateOf(n, x).epsilon_transition # None}}
    IN  IF T = S THEN S ELSE EpsilonClosure(n, T)

\* the states active after the components under the textbook semantics:
\* closure of the start state, then closure of the matching targets
RECURSIVE ClosedStates(_, _)
ClosedStates(n, comps) ==
    IF comps = <<>> THEN EpsilonClosure(n, {START_STATE})
    ELSE EpsilonClosure(n,
            UNION {Range(MatchingTargets(StateOf(n, s).transitions, Last(comps))) :
                      s \in ClosedStates(n, Front(comps))})

\* the ids of the patterns terminal at one of the states
TerminalIdsOf(n, S) == UNION {Range(StateOf(n, s).terminal_for_patterns) : s \in S}

\* C33: for every automaton produced by Builder and every path, the active
\* list of next_states after each segment (and before the first) holds exactly
\* the states of the full transitive epsilon closure, and the ids returned are
\* those terminal in the closure.
ClaimC33 ==
    phase = "matched" =>
        /\ \A i \in 0..Len(QComps) :
              Range(NextStates(nfa, EmptyCache, SubSeq(QComps, 1, i),
                               InitialStates(nfa)).states)
                  = ClosedStates(nfa, SubSeq(QComps, 1, i))
        /\ Range(q_matches) = TerminalIdsOf(nfa, ClosedStates(nfa, QComps))

\* /a/**/b against a/b: the state behind `a` is entered by a transition and
\* its epsilon target by the one hop
WitnessC33 ==
    /\ phase = "matched"
    /\ patterns = << <<"/", "a", "/", "*", "*", "/", "b">> >>
    /\ q_path = <<"a", "/", "b">>
    /\ q_matches = <<0>>
    /\ EpsilonNodes(nfa, StepStates(nfa, InitialStates(nfa), <<"a">>)) # <<>>

(***************************************************************************)
(* C34: the path with no segments.                                         *)
(***************************************************************************)
\* C34: for a path with no segments matching_patterns returns the ids
\* terminal at START or at START's epsilon target, and after any sequence of
\* Builder::add calls neither state is terminal: nothing matches the empty
\* path.
ClaimC34 ==
    /\ phase \in {"built", "matched"} =>
          \A s \in Range(InitialStates(nfa)) : ~IsTerminal(StateOf(nfa, s))
    /\ (phase = "matched" /\ QComps = <<>>) =>
          /\ Range(q_matches) = TerminalIdsOf(nfa, Range(InitialStates(nfa)))
          /\ q_matches = <<>>

\* the empty path has been matched against the floating `**`, whose automaton
\* has an epsilon target of START
WitnessC34 ==
    /\ phase = "matched"
    /\ q_path = <<>>
    /\ patterns = << <<"*", "*">> >>
    /\ InitialStates(nfa) = <<START_STATE, 1>>
    /\ q_matches = <<>>

\* the empty path has been matched against the bare `*`
WitnessC34Star ==
    /\ phase = "matched"
    /\ q_path = <<>>
    /\ patterns = << <<"*">> >>
    /\ q_matches = <<>>

(***************************************************************************)
(* C35: consecutive `**` segments.                                         *)
(***************************************************************************)
\* the positions at which `**/**` occurs in the pattern
DoubleRunsAt(pattern) ==
    {i \in 1..(Len(pattern) - 4) : SubSeq(pattern, i, i + 4) = <<"*", "*", "/", "*", "*">>}

\* the pattern with the `**/**` at position i replaced by `**`
CoalescedAt(pattern, i) ==
    SubSeq(pattern, 1, i + 1) \o SubSeq(pattern, i + 5, Len(pattern))

\* C35: a run of consecutive `**` segments counts as one: replacing `**/**`
\* by `**` anywhere in a pattern yields a pattern that matches the same paths,
\* and add_epsilon_transition on a state that is an epsilon target returns
\* that state and leaves the automaton as it is.
ClaimC35 ==
    /\ phase = "matched" =>
          \A i \in PatternIds : \A k \in DoubleRunsAt(patterns[i + 1]) :
              i \in QIds <=> AloneHit(CoalescedAt(patterns[i + 1], k), q_path)
    /\ phase \in {"built", "matched"} =>
          \A id \in EpsilonTargets(nfa) :
              AddEpsilonTransition(nfa, id) = [nfa |-> nfa, id |-> id]

\* a/**/** matches a/b, as a/** does
WitnessC35 ==
    /\ phase = "matched"
    /\ patterns = << <<"a", "/", "*", "*", "/", "*", "*">> >>
    /\ q_path = <<"a", "/", "b">>
    /\ q_matches = <<0>>
    /\ CoalescedAt(patterns[1], 3) = <<"a", "/", "*", "*">>

\* **/** against a path it matches: coalesced it is the floating `**`
WitnessC35Floating ==
    /\ phase = "matched"
    /\ patterns = << <<"*", "*", "/", "*", "*">> >>
    /\ q_path = <<"a">>
    /\ q_matches = <<0>>

\* **/**/a against a path it does not match
WitnessC35Miss ==
    /\ phase = "matched"
    /\ patterns = << <<"*", "*", "/", "*", "*", "/", "a">> >>
    /\ q_path = <<"b">>
    /\ q_matches = <<>>

(***************************************************************************)
(* C36: termination of matching under concurrent callers.                  *)
(***************************************************************************)
\* the thread is inside matching_patterns
InQuery(t) == threads[t].pc \in {"call", "reading", "ret", "writing"}

\* the thread is about to call, or is blocked in, transition_cache.write()
WantsWrite(t) == threads[t].pc = "ret" /\ threads[t].level < Len(threads[t].comps)

\* the thread holds the read lock of some cache
HoldsRead(t) == \E c \in 1..Len(heap) : t \in heap[c].readers

\* C36: the recursion of next_states never goes deeper than the number of
\* path segments; a thread holds the read lock only inside
\* get_cached_states_for, never when it requests the write lock; and with
\* threads querying one Matcher under a fair lock, every matching_patterns
\* call that was entered returns.
ClaimC36 ==
    /\ [](\A t \in Threads : threads[t].level \in 0..Len(threads[t].comps))
    /\ [](\A t \in Threads : HoldsRead(t) => threads[t].pc = "reading")
    /\ \A t \in Threads : InQuery(t) ~> (threads[t].pc = "done")

\* a thread waits for the write lock while the other thread holds the read lock
WitnessC36 ==
    \E t \in Threads : \E u \in Threads :
        /\ WantsWrite(t)
        /\ ~HoldsRead(t)
        /\ u # t
        /\ HoldsRead(u)
        /\ threads[u].m = threads[t].m

\* a thread waits for the read lock while the other thread holds the write lock
WitnessC36Read ==
    \E t \in Threads : \E u \in Threads :
        /\ threads[t].pc = "call" /\ threads[t].level > 0
        /\ threads[u].pc = "writing"
        /\ heap[matchers[threads[t].m].cache].writer = u

(***************************************************************************)
(* C37: positions and spans of the parser.                                 *)
(***************************************************************************)
\* the spans of one rule in the order its items appear in the source:
\* leading comments, pattern, owners, trailing comment
RuleSpans(rule) ==
    [i \in 1..Len(rule.leading_comments) |-> rule.leading_comments[i].span]
        \o <<rule.pattern.span>>
        \o [i \in 1..Len(rule.owners) |-> rule.owners[i].span]
        \o [i \in 1..Len(rule.trailing_comment) |-> rule.trailing_comment[i].span]

\* the spans of all the rules, in the order of the rules
RECURSIVE AllSpans(_)
AllSpans(rs) == IF rs = <<>> THEN <<>> ELSE RuleSpans(Head(rs)) \o AllSpans(Tail(rs))

\* every loop of the parser started at pos ends between pos and the end
Advances(src, pos) ==
    /\ NextPos(src, pos) \in pos..Len(src)
    /\ SkipWhitespace(src, pos) \in pos..Len(src)
    /\ CommentLoop(src, pos, <<>>).pos \in pos..Len(src)
    /\ PatternLoop(src, pos, <<>>, FALSE, <<>>).pos \in pos..Len(src)
    /\ OwnerLoop(src, pos, <<>>).pos \in pos..Len(src)

\* the spans are non-empty ranges of the source, each ending before the next starts
SpansInOrder(spans, len) ==
    /\ \A i \in 1..Len(spans) : 0 <= spans[i][1] /\ spans[i][1] < spans[i][2] /\ spans[i][2] <= len
    /\ \A i \in 1..(Len(spans) - 1) : spans[i][2] <= spans[i + 1][1]

\* C37: for every input text parse returns, no step of it moves the position
\* backwards or past the end, every returned rule has a non-empty pattern,
\* and the spans of the comments, patterns and owners of the returned rules,
\* taken in the order the items appear, are non-empty byte ranges of the
\* source that are disjoint and increasing (so the rules are in source order).
ClaimC37 ==
    phase = "parsed" =>
        /\ \A pos \in 0..Len(source) : Advances(source, pos)
        /\ ParserParse(source).pos \in 0..Len(source)
        /\ \A i \in 1..Len(parsed.rules) : parsed.rules[i].pattern.val # <<>>
        /\ SpansInOrder(AllSpans(parsed.rules), Len(source))

\* a rule with a pattern, an owner and a trailing comment
WitnessC37 ==
    /\ phase = "parsed"
    /\ source = <<"a", " ", "@", "a", "#">>
    /\ AllSpans(parsed.rules) = << <<0, 1>>, <<2, 4>>, <<4, 5>> >>

\* a leading comment and two rules
WitnessC37Two ==
    /\ phase = "parsed"
    /\ source = <<"#", LF, "a", LF, "a">>
    /\ AllSpans(parsed.rules) = << <<0, 1>>, <<2, 3>>, <<4, 5>> >>

\* a lone backslash: the pattern is empty and no rule is returned
WitnessC37Empty ==
    /\ phase = "parsed"
    /\ source = <<"\\">>
    /\ parsed.rules = <<>>
    /\ Len(parsed.errors) = 1

(***************************************************************************)
(* C38: the bounds of print_parse_error.                                   *)
(***************************************************************************)
\* C38: for every source text and every error parse produces for it,
\* print_parse_error computes line_start <= error.span.0 and
\* line_end <= source.len(), so neither the slice nor the subtraction goes
\* out of range.
ClaimC38 ==
    phase = "printed" =>
        \A k \in 1..Len(printed) :
            /\ printed[k].line_start <= printed[k].span[1]
            /\ printed[k].line_end <= Len(source)
            /\ ~printed[k].panicked

\* the half that holds: line_start never passes the start of the error
LineStartC38 ==
    phase = "printed" =>
        \A k \in 1..Len(printed) :
            /\ printed[k].line_start <= printed[k].span[1]
            /\ printed[k].line_start <= printed[k].line_end

\* with every line of the source terminated by a single '\n' and the error
\* before the end of the text, the printer stays in bounds
TerminatedC38 ==
    (phase = "printed" /\ source # <<>> /\ Last(source) = LF
        /\ \A i \in 1..Len(source) : source[i] # CR) =>
        \A k \in 1..Len(printed) :
            printed[k].span[1] < Len(source) => ~printed[k].panicked

\* an error on a CRLF line has been printed in bounds
CrLfC38 ==
    /\ phase = "printed"
    /\ source = <<"a", " ", "a", CR, LF>>
    /\ Len(printed) = 1
    /\ ~printed[1].panicked

(***************************************************************************)
(* C39: wildcard::matches against the glob language.                       *)
(***************************************************************************)
\* the glob language: `*` stands for any string, the empty one included, `?`
\* for one character, any other character for itself
RECURSIVE InGlobLanguage(_, _)
InGlobLanguage(pattern, cand) ==
    IF pattern = <<>> THEN cand = <<>>
    ELSE IF Head(pattern) = "*"
    THEN \E k \in 0..Len(cand) :
            InGlobLanguage(Tail(pattern), SubSeq(cand, k + 1, Len(cand)))
    ELSE /\ cand # <<>>
         /\ Head(pattern) \in {"?", Head(cand)}
         /\ InGlobLanguage(Tail(pattern), Tail(cand))

\* C39: matches returns true iff the whole cand is in the glob language
\* of the pattern, and the loop runs at most
\* (len(pattern) + 1) * (len(cand) + 2) times.
ClaimC39 ==
    phase = "wild" =>
        /\ wild.result <=> InGlobLanguage(wild.pattern, wild.candidate)
        /\ wild.iterations <= (Len(wild.pattern) + 1) * (Len(wild.candidate) + 2)

\* the pattern of the exponential test was matched against a run of a's
WitnessC39 ==
    /\ phase = "wild"
    /\ wild.pattern = ExponentialPattern
    /\ wild.candidate = ExponentialCandidate
    /\ ~wild.result

\* a match that needed the loop to go back to a `*`
WitnessC39Back ==
    /\ phase = "wild"
    /\ wild.pattern = <<"*", "a", "b">>
    /\ wild.candidate = <<"a", "a", "a", "b">>
    /\ wild.result
    /\ wild.iterations > Len(wild.pattern) + Len(wild.candidate)

====
